---- MODULE Spec2Model ----
(***************************************************************************)
(* A model of the CyVerse iRODS policy rule bases: the hook composition    *)
(* engine of core.py, the write-session handlers of checksum.py and        *)
(* replication.py, and the delay throttle.  One action is one event that   *)
(* the iRODS rule engine dispatches to a hook of core.py; the event is     *)
(* handled to completion.  The storage engine and the catalog are the      *)
(* environment: their answers (microservice return codes) are inputs of    *)
(* the event.  Python semantics are those of Python 3, the interpreter of  *)
(* the iRODS 4.3 rule engine plugin the sources target.                    *)
(***************************************************************************)
EXTENDS Integers, Sequences, FiniteSets, TLC

VARIABLES
    ck_write_props,   \* checksum.__write_props
    rp_write_props,   \* replication.__write_props
    delay_time,       \* throttle.__delay_time
    delay_queue,      \* rules handed to cb.delayExec, in scheduling order
    catalog,          \* replicas of every data object and their checksums
    last,             \* what the most recent event did and returned
    seq               \* history: the events since the last create/open

vars == <<ck_write_props, rp_write_props, delay_time, delay_queue, catalog,
          last, seq>>

----------------------------------------------------------------------------
(* Bounds of the model *)

MaxTasks == 1       \* delayed rules kept in the queue
\* SpecApi: the rules the delay queue holds, and the count the throttle
\* reaches
MaxQueue == 2
MaxDelay == 3

----------------------------------------------------------------------------
(* Program constants *)

_RE_DONE == 0
SUCCESS == 0
RULE_ENGINE_CONTINUE == 5000000
SYS_RESC_DOES_NOT_EXIST == -78000
USER_CHKSUM_MISMATCH == -314000
CAT_NOT_ROWS_FOUND == -808000
CAT_UNKNOWN_FILE == -817000
SYS_NOT_ALLOWED == -169000
\* a code _resolve_replicate_issue does not name
SYS_COPY_LEN_ERR == -27000

FILE_CREATE == "1"
FILE_OPEN_READ == "2"
FILE_OPEN_WRITE == "3"
OPEN_FLAG_A == "1"
OPEN_FLAG_A_CREATE == "65"
OPEN_FLAG_AP_CREATE == "66"
OPEN_FLAG_R == "0"
OPEN_FLAG_RP == "2"
OPEN_FLAG_W == "513"
OPEN_FLAG_W_CREATE == "577"
OPEN_FLAG_WP == "514"
OPEN_FLAG_WP_CREATE == "578"

replica_truncated(open_flags) ==
    open_flags \in {OPEN_FLAG_W, OPEN_FLAG_W_CREATE, OPEN_FLAG_WP,
                    OPEN_FLAG_WP_CREATE}

----------------------------------------------------------------------------
(* Python values a handler can hand back: an int, None, the dict an msi    *)
(* call returns, or an exception that leaves the handler.                  *)

PyInt(n) == [t |-> "int", v |-> n]
PyNone == [t |-> "None", v |-> 0]
PyDict(code) == [t |-> "dict", v |-> code]
KeyError == [t |-> "KeyError", v |-> 0]
TypeError == [t |-> "TypeError", v |-> 0]
ValueError == [t |-> "ValueError", v |-> 0]
AttributeError == [t |-> "AttributeError", v |-> 0]

IsExc(x) == x.t \in {"KeyError", "TypeError", "ValueError", "AttributeError"}

\* Python truthiness of a failure response: None and 0 are false.
Truthy(x) == x.t = "int" /\ x.v # 0

----------------------------------------------------------------------------
(* The catalog and the requests *)

Paths == {"/zone/home/alice/f", "/zone/home/alice/g"}
ReplNums == {0, 1}

\* A resource hierarchy is the list of its resources, root first; the empty
\* list is the empty string.
NoHier == <<>>
HierA == <<"rescA">>
HierC == <<"rescC", "unix1">>
Hiers == {HierA, HierC}         \* where the storage engine puts first replicas

NoRepl == [hier |-> NoHier, chk |-> "absent"]

ObjExists(cat, p) == \E n \in ReplNums : cat[p][n].chk # "absent"

root_resc(resc_hier) == IF resc_hier = NoHier THEN "" ELSE Head(resc_hier)

_query_repl_resc_unbound(resc) == "None"

\* The cyverse::replica-resource AVU of the catalog: rescA is bound to rescB.
_query_repl_resc(resc) == IF resc = "rescA" THEN "rescB" ELSE "None"

DataId(p) == IF p = "/zone/home/alice/f" THEN "10001"
             ELSE IF p = "/zone/home/alice/g" THEN "10002" ELSE "10003"

_query_data_id(cat, data_path) ==
    IF ObjExists(cat, data_path) THEN DataId(data_path) ELSE "None"

----------------------------------------------------------------------------
(* Python dicts *)

EmptyDict == [k \in {} |-> TRUE]

DictSet(d, k, val) == [x \in DOMAIN d \cup {k} |-> IF x = k THEN val ELSE d[x]]

has_key(d, k) == k \in DOMAIN d

\* irods_extra.has_key on the condInput of a request, which the model keeps
\* as the set of its keys.
has_opt(opts, key) == key \in opts

----------------------------------------------------------------------------
(* throttle.py *)

next_delay_stuck(w) == w

next_delay(w) == [w EXCEPT !.delay_time = w.delay_time + 1]

----------------------------------------------------------------------------
(* The state an event works on: the two session dicts, the throttle, the   *)
(* delay queue and the catalog, with a record of the calls the event made. *)
(* A handler maps such a world to the world it leaves and the value it     *)
(* returns.                                                                *)

World ==
    [ck |-> ck_write_props, rp |-> rp_write_props, delay_time |-> delay_time,
     queue |-> delay_queue, cat |-> catalog,
     chks |-> <<>>, repls |-> <<>>, sched |-> <<>>, logs |-> 0]

Ret(w, res) == [w |-> w, res |-> res]

----------------------------------------------------------------------------
(* checksum.py *)

\* cb.msiDataObjChksum(data_path, "ChksumAll=", ''): on success every
\* replica of the object has a checksum.
msiDataObjChksumAll(w, code, data_path) ==
    [w EXCEPT
        !.chks = Append(@, [path |-> data_path, sel |-> "ChksumAll",
                            code |-> code]),
        !.cat = IF code # SUCCESS THEN @
                ELSE [@ EXCEPT ![data_path] =
                        [n \in ReplNums |->
                            IF @[n].chk = "absent" THEN @[n]
                            ELSE [@[n] EXCEPT !.chk = "ok"]]]]

\* cb.msiDataObjChksum(data_path, "replNum=n", '')
msiDataObjChksumRepl(w, code, data_path, n) ==
    [w EXCEPT
        !.chks = Append(@, [path |-> data_path, sel |-> ToString(n),
                            code |-> code]),
        !.cat = IF code # SUCCESS THEN @
                ELSE [@ EXCEPT ![data_path][n].chk = "ok"]]

writeLine(w) == [w EXCEPT !.logs = @ + 1]

\* genquery.Query(cb, 'DATA_REPL_NUM', cond): the replica numbers of the
\* object stored at resc_hier, in ascending order.
QueryReplNums(cat, data_path, resc_hier) ==
    LET at(n) == cat[data_path][n].chk # "absent"
                 /\ cat[data_path][n].hier = resc_hier
    IN  (IF at(0) THEN <<0>> ELSE <<>>) \o (IF at(1) THEN <<1>> ELSE <<>>)

_ensure_replicas_checksum_ends_session(w, env, data_path, resc_hier) ==
    Ret([w EXCEPT !.ck = EmptyDict], PyInt(SUCCESS))

\* the loop ends at the first failure
_ensure_replicas_checksum_stops(w, env, data_path, resc_hier) ==
    LET recs == QueryReplNums(w.cat, data_path, resc_hier)
        RECURSIVE loop(_, _)
        loop(i, wi) ==
            IF i > Len(recs) THEN Ret(wi, PyInt(SUCCESS))
            ELSE LET code == env.chk[recs[i]]
                     w1 == msiDataObjChksumRepl(wi, code, data_path, recs[i])
                 IN  IF code # SUCCESS THEN Ret(writeLine(w1), PyInt(code))
                     ELSE loop(i + 1, w1)
    IN  loop(1, w)

_ensure_replicas_checksum(w, env, data_path, resc_hier) ==
    IF resc_hier = NoHier
    THEN LET w1 == msiDataObjChksumAll(w, env.chkAll, data_path)
         IN  \* the failure message's format string has an unmatched brace,
             \* so str.format raises before anything is logged
             IF env.chkAll # SUCCESS THEN Ret(w1, ValueError)
             ELSE Ret(w1, PyDict(env.chkAll))
    ELSE LET recs == QueryReplNums(w.cat, data_path, resc_hier)
             RECURSIVE loop(_, _, _)
             loop(i, wi, res) ==
                 IF i > Len(recs) THEN Ret(wi, PyInt(res))
                 ELSE LET code == env.chk[recs[i]]
                          w1 == msiDataObjChksumRepl(wi, code, data_path, recs[i])
                      IN  IF code # SUCCESS
                          THEN loop(i + 1, writeLine(w1),
                                    IF res = SUCCESS THEN code ELSE res)
                          ELSE loop(i + 1, w1, res)
         IN  loop(1, w, SUCCESS)

\* The objects of a bulk request get their checksum one after the other;
\* comparing ret with SUCCESS raises TypeError when ret is the dict of a
\* checksum of all replicas.
checksum_async_api_bulk_data_obj_put_post(w, req, env) ==
    LET RECURSIVE loop(_, _, _), after(_, _, _)
        \* r is what _ensure_replicas_checksum returned for object i
        after(i, r, res) ==
            IF IsExc(r.res) THEN r
            ELSE IF r.res.t # "int" THEN Ret(r.w, TypeError)
            ELSE loop(i + 1, r.w,
                      IF r.res.v < SUCCESS /\ res = SUCCESS
                      THEN r.res.v ELSE res)
        loop(i, wi, res) ==
            IF i > Len(req.objs) THEN Ret(wi, PyInt(res))
            ELSE after(i, _ensure_replicas_checksum(wi, env, req.objs[i],
                                                    req.resc_hier), res)
    IN  IF ~has_opt(req.opts, "regChksum") /\ ~has_opt(req.opts, "verifyChksum")
        THEN loop(1, w, SUCCESS)
        ELSE Ret(w, PyInt(SUCCESS))

checksum_put_post_ungated(w, req, env) ==
    _ensure_replicas_checksum(w, env, req.objPath, req.resc_hier)

checksum_pep_api_data_obj_put_post(w, req, env) ==
    IF has_opt(req.opts, "regChksum") \/ has_opt(req.opts, "verifyChksum")
    THEN Ret(w, PyInt(SUCCESS))
    ELSE _ensure_replicas_checksum(w, env, req.objPath, req.resc_hier)

\* req is the destDataObjInp of the copy.
checksum_pep_api_data_obj_copy_post(w, req, env) ==
    IF has_opt(req.opts, "regChksum") \/ has_opt(req.opts, "verifyChksum")
    THEN Ret(w, PyInt(SUCCESS))
    ELSE _ensure_replicas_checksum(w, env, req.objPath, req.resc_hier)

checksum_pep_api_phy_path_reg_post(w, req, env) ==
    IF has_opt(req.opts, "regRepl") \/ has_opt(req.opts, "regChksum")
       \/ has_opt(req.opts, "verifyChksum")
    THEN Ret(w, PyInt(SUCCESS))
    ELSE _ensure_replicas_checksum(w, env, req.objPath, req.resc_hier)

checksum_create_post_no_flag(w, req, env) ==
    LET d1 == DictSet(w.ck, "data_path", req.objPath)
        d2 == DictSet(d1, "resc_hier", req.resc_hier)
        d3 == DictSet(d2, "needs_checksum", FALSE)
    IN  Ret([w EXCEPT !.ck = d3], PyInt(SUCCESS))

checksum_pep_api_data_obj_create_post(w, req, env) ==
    LET d1 == DictSet(w.ck, "data_path", req.objPath)
        d2 == DictSet(d1, "resc_hier", req.resc_hier)
        d3 == DictSet(d2, "needs_checksum", TRUE)
    IN  Ret([w EXCEPT !.ck = d3], PyInt(SUCCESS))

checksum_open_post_always(w, req, env) ==
    LET d1 == DictSet(w.ck, "data_path", req.objPath)
        d2 == DictSet(d1, "resc_hier", req.resc_hier)
    IN  Ret([w EXCEPT !.ck = DictSet(d2, "needs_checksum", TRUE)],
            PyInt(SUCCESS))

\* an open that keeps a needs_checksum flag already set
checksum_open_post_keeps_flag(w, req, env) ==
    LET d1 == DictSet(w.ck, "data_path", req.objPath)
        d2 == DictSet(d1, "resc_hier", req.resc_hier)
        d3 == IF has_key(w.ck, "needs_checksum") /\ w.ck["needs_checksum"]
              THEN d2
              ELSE IF req.openFlags = OPEN_FLAG_R
              THEN DictSet(d2, "needs_checksum", FALSE)
              ELSE DictSet(d2, "needs_checksum",
                           req.openType = FILE_CREATE
                           \/ replica_truncated(req.openFlags))
    IN  Ret([w EXCEPT !.ck = d3], PyInt(SUCCESS))

checksum_pep_api_data_obj_open_post(w, req, env) ==
    LET d1 == DictSet(w.ck, "data_path", req.objPath)
        d2 == DictSet(d1, "resc_hier", req.resc_hier)
        d3 == IF req.openFlags = OPEN_FLAG_R
              THEN DictSet(d2, "needs_checksum", FALSE)
              ELSE DictSet(d2, "needs_checksum",
                           req.openType = FILE_CREATE
                           \/ replica_truncated(req.openFlags))
    IN  Ret([w EXCEPT !.ck = d3], PyInt(SUCCESS))

checksum_pep_api_replica_open_post(w, req, env) ==
    LET d1 == DictSet(w.ck, "data_path", req.objPath)
        d2 == DictSet(d1, "resc_hier", req.resc_hier)
        d3 == IF req.openFlags = OPEN_FLAG_R
              THEN DictSet(d2, "needs_checksum", FALSE)
              ELSE DictSet(d2, "needs_checksum",
                           req.openType = FILE_CREATE
                           \/ replica_truncated(req.openFlags))
    IN  Ret([w EXCEPT !.ck = d3], PyInt(SUCCESS))

checksum_write_post_forgets(w, req, env) == Ret(w, PyInt(SUCCESS))

checksum_pep_api_data_obj_write_post(w, req, env) ==
    Ret([w EXCEPT !.ck = DictSet(@, "needs_checksum", TRUE)], PyInt(SUCCESS))

\* the checksum of every replica, whatever hierarchy the session holds
checksum_close_post_all_replicas(w, req, env) ==
    IF ~has_key(w.ck, "data_path") THEN Ret(w, PyInt(SUCCESS))
    ELSE IF ~has_key(w.ck, "needs_checksum") THEN Ret(w, KeyError)
    ELSE IF ~w.ck["needs_checksum"] THEN Ret(w, PyInt(SUCCESS))
    ELSE _ensure_replicas_checksum(w, env, w.ck["data_path"], NoHier)

checksum_pep_api_data_obj_close_post(w, req, env) ==
    IF ~has_key(w.ck, "data_path") THEN Ret(w, PyInt(SUCCESS))
    ELSE IF ~has_key(w.ck, "needs_checksum") THEN Ret(w, KeyError)
    ELSE IF ~w.ck["needs_checksum"] THEN Ret(w, PyInt(SUCCESS))
    ELSE IF ~has_key(w.ck, "resc_hier") THEN Ret(w, KeyError)
    ELSE _ensure_replicas_checksum(w, env, w.ck["data_path"], w.ck["resc_hier"])

checksum_close_finally_keeps(w, req, env) == Ret(w, PyInt(SUCCESS))

checksum_pep_api_data_obj_close_finally(w, req, env) ==
    Ret([w EXCEPT !.ck = EmptyDict], PyInt(SUCCESS))

checksum_pep_api_replica_close_post(w, req, env) ==
    IF ~has_key(w.ck, "needs_checksum") THEN Ret(w, KeyError)
    ELSE IF w.ck["needs_checksum"] /\ req.compute_checksum # "true"
    THEN IF ~has_key(w.ck, "data_path") \/ ~has_key(w.ck, "resc_hier")
         THEN Ret(w, KeyError)
         ELSE _ensure_replicas_checksum(w, env, w.ck["data_path"],
                                        w.ck["resc_hier"])
    ELSE Ret(w, PyInt(SUCCESS))

checksum_pep_api_replica_close_finally(w, req, env) ==
    Ret([w EXCEPT !.ck = EmptyDict], PyInt(SUCCESS))

----------------------------------------------------------------------------
(* replication.py *)

\* cb.delayExec(cond, task, "") with the delay throttle.next_delay() returns
_sched_repl_task(w, task) ==
    LET w1 == next_delay(w)
        t == [task EXCEPT !.delay = w1.delay_time]
    IN  [w1 EXCEPT !.queue = Append(@, t), !.sched = Append(@, t)]

_sched_replication(w, data_id, dest_resc) ==
    _sched_repl_task(w, [rule |-> "replicate", data_id |-> data_id,
                         dest_resc |-> dest_resc, delay |-> 0])

_sched_sync_replicas(w, data_id) ==
    _sched_repl_task(w, [rule |-> "sync_replicas", data_id |-> data_id,
                         dest_resc |-> "", delay |-> 0])

\* cb.msiDataObjRepl(data_path, options, 0): the storage engine answers code.
\* A successful replication to dest_resc leaves a checksummed copy of the
\* object there; rule is "replicate" or "sync_replicas".
msiDataObjRepl(w, code, rule, data_path, dest_resc) ==
    [w EXCEPT
        !.repls = Append(@, [rule |-> rule, path |-> data_path,
                             dest_resc |-> dest_resc, res |-> code]),
        !.cat = IF code = SUCCESS /\ rule = "replicate"
                   /\ w.cat[data_path][0].chk # "absent"
                   /\ w.cat[data_path][1].chk = "absent"
                THEN [@ EXCEPT ![data_path][1] =
                        [w.cat[data_path][0] EXCEPT !.hier = <<dest_resc>>,
                                                    !.chk = "ok"]]
                ELSE @]

_query_data_path(cat, data_id) ==
    IF \E p \in DOMAIN cat : DataId(p) = data_id /\ ObjExists(cat, p)
    THEN CHOOSE p \in DOMAIN cat : DataId(p) = data_id
    ELSE "None"

\* The codes _resolve_replicate_issue answers with success.  Evaluating
\* the list it tests first raises AttributeError when the irods_errors
\* module in use has no attribute CAT_NOT_ROWS_FOUND (env.errors_has_name).
Absorbed(code) ==
    code \in {CAT_NOT_ROWS_FOUND, CAT_UNKNOWN_FILE, SYS_NOT_ALLOWED,
              SYS_RESC_DOES_NOT_EXIST, USER_CHKSUM_MISMATCH}

_resolve_replicate_issue(w, env, code) ==
    IF ~env.errors_has_name THEN Ret(w, AttributeError)
    ELSE IF code = SYS_NOT_ALLOWED THEN Ret(w, PyInt(SUCCESS))
    ELSE IF Absorbed(code) THEN Ret(writeLine(w), PyInt(SUCCESS))
    ELSE Ret(writeLine(w), PyInt(code))

_replicate_with_path(w, env, data_path, dest_resc) ==
    LET code == env.repl[data_path]
        w1 == msiDataObjRepl(w, code, "replicate", data_path, dest_resc)
    IN  IF code # SUCCESS THEN _resolve_replicate_issue(w1, env, code)
        ELSE Ret(w1, PyInt(SUCCESS))

_sync_replicas_with_path(w, env, data_path) ==
    LET code == env.repl[data_path]
        w1 == msiDataObjRepl(w, code, "sync_replicas", data_path, "")
    IN  IF code # SUCCESS THEN _resolve_replicate_issue(w1, env, code)
        ELSE Ret(w1, PyInt(SUCCESS))

replicate_skips(w, task, env) == Ret(w, PyInt(SUCCESS))

\* The delayed rule replicate(data_id, dest_resc).
replicate(w, task, env) ==
    LET data_path == _query_data_path(w.cat, task.data_id)
    IN  IF data_path # "None"
        THEN _replicate_with_path(w, env, data_path, task.dest_resc)
        ELSE Ret(w, PyInt(SUCCESS))

\* The delayed rule sync_replicas(data_id).
sync_replicas(w, task, env) ==
    LET data_path == _query_data_path(w.cat, task.data_id)
    IN  IF data_path # "None" THEN _sync_replicas_with_path(w, env, data_path)
        ELSE Ret(w, PyInt(SUCCESS))

\* Returns None, or the exception that escapes.
_try_replicate(w, env, data_path, dest_resc) ==
    LET \* r is what _replicate_with_path returned
        sched(r) ==
            IF IsExc(r.res) THEN r
            ELSE IF r.res.v < SUCCESS
            THEN Ret(_sched_replication(
                        r.w, _query_data_id(r.w.cat, data_path), dest_resc),
                     PyNone)
            ELSE Ret(r.w, PyNone)
    IN  sched(_replicate_with_path(w, env, data_path, dest_resc))

_try_sync_replicas(w, env, data_path) ==
    LET \* r is what _sync_replicas_with_path returned
        sched(r) ==
            IF IsExc(r.res) THEN r
            ELSE IF r.res.v < SUCCESS
            THEN Ret(_sched_sync_replicas(
                        r.w, _query_data_id(r.w.cat, data_path)), PyNone)
            ELSE Ret(r.w, PyNone)
    IN  sched(_sync_replicas_with_path(w, env, data_path))

\* genquery.Query(cb, ('DATA_CREATE_TIME', 'DATA_MODIFY_TIME'), cond): one
\* row for each replica of the object; fresh says the two times are equal.
QueryTimes(cat, data_path) ==
    LET row(n) == IF cat[data_path][n].chk = "absent" THEN <<>>
                  ELSE <<cat[data_path][n].fresh>>
    IN  row(0) \o row(1)

BulkForced_all_sync(w, env, obj, repl_resc) == _try_sync_replicas(w, env, obj)

\* One object of a forced bulk upload: a row with equal times is replicated
\* when a replication resource is bound, any other row is synchronised.
BulkForced(w, env, obj, repl_resc) ==
    LET recs == QueryTimes(w.cat, obj)
        RECURSIVE rows(_, _), after(_, _)
        \* r is what the attempt for row j returned
        after(j, r) == IF IsExc(r.res) THEN r ELSE rows(j + 1, r.w)
        rows(j, wj) ==
            IF j > Len(recs) THEN Ret(wj, PyNone)
            ELSE after(j, IF recs[j]
                          THEN (IF repl_resc # "None"
                                THEN _try_replicate(wj, env, obj, repl_resc)
                                ELSE Ret(wj, PyNone))
                          ELSE _try_sync_replicas(wj, env, obj))
    IN  rows(1, w)

replication_async_api_bulk_data_obj_put_post(w, req, env) ==
    LET repl_resc == _query_repl_resc(root_resc(req.resc_hier))
        forced == has_opt(req.opts, "forceFlag")
        RECURSIVE loop(_, _), after(_, _)
        \* r is what the attempts for object i returned
        after(i, r) == IF IsExc(r.res) THEN r ELSE loop(i + 1, r.w)
        loop(i, wi) ==
            IF i > Len(req.objs) THEN Ret(wi, PyInt(SUCCESS))
            ELSE after(i, IF forced
                          THEN BulkForced(wi, env, req.objs[i], repl_resc)
                          ELSE _try_replicate(wi, env, req.objs[i], repl_resc))
    IN  IF forced \/ repl_resc # "None" THEN loop(1, w)
        ELSE Ret(w, PyInt(SUCCESS))

replication_put_post_unchecked(w, req, env) ==
    IF req.openType = FILE_CREATE
    THEN Ret(_sched_replication(w, _query_data_id(w.cat, req.objPath),
                                _query_repl_resc(root_resc(req.resc_hier))),
             PyInt(SUCCESS))
    ELSE Ret(_sched_sync_replicas(w, _query_data_id(w.cat, req.objPath)),
             PyInt(SUCCESS))

replication_pep_api_data_obj_put_post(w, req, env) ==
    IF req.openType = FILE_CREATE
    THEN LET repl_resc == _query_repl_resc(root_resc(req.resc_hier))
         IN  IF repl_resc # "None"
             THEN Ret(_sched_replication(w, _query_data_id(w.cat, req.objPath),
                                         repl_resc), PyInt(SUCCESS))
             ELSE Ret(w, PyInt(SUCCESS))
    ELSE Ret(_sched_sync_replicas(w, _query_data_id(w.cat, req.objPath)),
             PyInt(SUCCESS))

\* the copy brings the replicas up to date itself
replication_copy_post_tries_first(w, req, env) ==
    IF req.openType = FILE_CREATE
    THEN LET repl_resc == _query_repl_resc(root_resc(req.resc_hier))
         IN  IF repl_resc # "None"
             THEN Ret(_sched_replication(w, _query_data_id(w.cat, req.objPath),
                                         repl_resc), PyInt(SUCCESS))
             ELSE Ret(w, PyInt(SUCCESS))
    ELSE Ret(_try_sync_replicas(w, env, req.objPath).w, PyInt(SUCCESS))

\* req is the destDataObjInp of the copy.
replication_pep_api_data_obj_copy_post(w, req, env) ==
    IF req.openType = FILE_CREATE
    THEN LET repl_resc == _query_repl_resc(root_resc(req.resc_hier))
         IN  IF repl_resc # "None"
             THEN Ret(_sched_replication(w, _query_data_id(w.cat, req.objPath),
                                         repl_resc), PyInt(SUCCESS))
             ELSE Ret(w, PyInt(SUCCESS))
    ELSE Ret(_sched_sync_replicas(w, _query_data_id(w.cat, req.objPath)),
             PyInt(SUCCESS))

replication_pep_api_phy_path_reg_post(w, req, env) ==
    IF has_opt(req.opts, "regRepl")
    THEN Ret(_sched_sync_replicas(w, _query_data_id(w.cat, req.objPath)),
             PyInt(SUCCESS))
    ELSE LET repl_resc == _query_repl_resc(root_resc(req.resc_hier))
         IN  IF repl_resc # "None"
             THEN Ret(_sched_replication(w, _query_data_id(w.cat, req.objPath),
                                         repl_resc), PyInt(SUCCESS))
             ELSE Ret(w, PyInt(SUCCESS))

replication_pep_api_data_obj_create_post(w, req, env) ==
    LET d1 == DictSet(w.rp, "data_path", req.objPath)
        d2 == DictSet(d1, "resc_hier", req.resc_hier)
        d3 == DictSet(d2, "created", TRUE)
        d4 == DictSet(d3, "modified", FALSE)
    IN  Ret([w EXCEPT !.rp = d4], PyInt(SUCCESS))

replication_open_post_created_by_flags(w, req, env) ==
    LET d1 == DictSet(w.rp, "data_path", req.objPath)
        d2 == DictSet(d1, "resc_hier", req.resc_hier)
        d3 == DictSet(d2, "created",
                      req.openFlags \in {OPEN_FLAG_A_CREATE, OPEN_FLAG_AP_CREATE,
                                         OPEN_FLAG_W_CREATE, OPEN_FLAG_WP_CREATE})
    IN  Ret([w EXCEPT !.rp = DictSet(d3, "modified",
                                     replica_truncated(req.openFlags))],
            PyInt(SUCCESS))

replication_pep_api_data_obj_open_post(w, req, env) ==
    LET d1 == DictSet(w.rp, "data_path", req.objPath)
        d2 == DictSet(d1, "resc_hier", req.resc_hier)
        d4 == IF req.openFlags = OPEN_FLAG_R
              THEN DictSet(DictSet(d2, "created", FALSE), "modified", FALSE)
              ELSE DictSet(DictSet(d2, "created", req.openType = FILE_CREATE),
                           "modified", replica_truncated(req.openFlags))
    IN  Ret([w EXCEPT !.rp = d4], PyInt(SUCCESS))

replication_pep_api_replica_open_post(w, req, env) ==
    LET d1 == DictSet(w.rp, "data_path", req.objPath)
        d2 == DictSet(d1, "resc_hier", req.resc_hier)
        d4 == IF req.openFlags = OPEN_FLAG_R
              THEN DictSet(DictSet(d2, "created", FALSE), "modified", FALSE)
              ELSE DictSet(DictSet(d2, "created", req.openType = FILE_CREATE),
                           "modified", replica_truncated(req.openFlags))
    IN  Ret([w EXCEPT !.rp = d4], PyInt(SUCCESS))

replication_write_post_forgets(w, req, env) == Ret(w, PyNone)

replication_write_post_resets(w, req, env) ==
    Ret([w EXCEPT !.rp = DictSet(DictSet(@, "created", FALSE),
                                 "modified", TRUE)], PyNone)

\* the function ends without a return statement
replication_pep_api_data_obj_write_post(w, req, env) ==
    Ret([w EXCEPT !.rp = DictSet(@, "modified", TRUE)], PyNone)

replication_close_post_modified_first(w, req, env) ==
    IF ~has_key(w.rp, "modified") THEN Ret(w, KeyError)
    ELSE IF w.rp["modified"]
    THEN Ret(_sched_sync_replicas(w, _query_data_id(w.cat, w.rp["data_path"])),
             PyInt(SUCCESS))
    ELSE IF w.rp["created"]
            /\ _query_repl_resc(root_resc(w.rp["resc_hier"])) # "None"
    THEN Ret(_sched_replication(w, _query_data_id(w.cat, w.rp["data_path"]),
                                _query_repl_resc(root_resc(w.rp["resc_hier"]))),
             PyInt(SUCCESS))
    ELSE Ret(w, PyInt(SUCCESS))

replication_pep_api_data_obj_close_post(w, req, env) ==
    IF ~has_key(w.rp, "created") THEN Ret(w, KeyError)
    ELSE IF w.rp["created"]
    THEN IF ~has_key(w.rp, "resc_hier") THEN Ret(w, KeyError)
         ELSE LET repl_resc == _query_repl_resc(root_resc(w.rp["resc_hier"]))
              IN  IF repl_resc # "None"
                  THEN IF ~has_key(w.rp, "data_path") THEN Ret(w, KeyError)
                       ELSE Ret(_sched_replication(
                                    w, _query_data_id(w.cat, w.rp["data_path"]),
                                    repl_resc),
                                PyInt(SUCCESS))
                  ELSE Ret(w, PyInt(SUCCESS))
    ELSE IF ~has_key(w.rp, "modified") THEN Ret(w, KeyError)
    ELSE IF w.rp["modified"]
    THEN IF ~has_key(w.rp, "data_path") THEN Ret(w, KeyError)
         ELSE Ret(_sched_sync_replicas(
                      w, _query_data_id(w.cat, w.rp["data_path"])),
                  PyInt(SUCCESS))
    ELSE Ret(w, PyInt(SUCCESS))

replication_close_finally_keeps(w, req, env) == Ret(w, PyInt(SUCCESS))

replication_pep_api_data_obj_close_finally(w, req, env) ==
    Ret([w EXCEPT !.rp = EmptyDict], PyInt(SUCCESS))

replication_pep_api_replica_close_post(w, req, env) ==
    IF ~has_key(w.rp, "created") THEN Ret(w, KeyError)
    ELSE IF w.rp["created"]
    THEN IF ~has_key(w.rp, "resc_hier") THEN Ret(w, KeyError)
         ELSE LET repl_resc == _query_repl_resc(root_resc(w.rp["resc_hier"]))
              IN  IF repl_resc # "None"
                  THEN IF ~has_key(w.rp, "data_path") THEN Ret(w, KeyError)
                       ELSE Ret(_sched_replication(
                                    w, _query_data_id(w.cat, w.rp["data_path"]),
                                    repl_resc),
                                PyInt(SUCCESS))
                  ELSE Ret(w, PyInt(SUCCESS))
    ELSE IF ~has_key(w.rp, "modified") THEN Ret(w, KeyError)
    ELSE IF w.rp["modified"]
    THEN IF ~has_key(w.rp, "data_path") THEN Ret(w, KeyError)
         ELSE Ret(_sched_sync_replicas(
                      w, _query_data_id(w.cat, w.rp["data_path"])),
                  PyInt(SUCCESS))
    ELSE Ret(w, PyInt(SUCCESS))

\* the record outlives the close of the replica
replication_replica_close_finally_keeps(w, req, env) == Ret(w, PyInt(SUCCESS))

replication_pep_api_replica_close_finally(w, req, env) ==
    Ret([w EXCEPT !.rp = EmptyDict], PyInt(SUCCESS))

----------------------------------------------------------------------------
(* The touch handlers.  req.opts holds "no_create" when options.no_create  *)
(* is true, and the names of the other options the request gives.          *)

\* genquery.Query(cb, cols, "COLL_NAME = ... and DATA_NAME = ..."): one row
\* for each replica of the object, here the replica numbers.
QueryReplicas(cat, data_path) ==
    SelectSeq(<<0, 1>>, LAMBDA n : cat[data_path][n].chk # "absent")

checksum_pep_api_touch_post(w, req, env) ==
    IF \/ has_opt(req.opts, "no_create")
       \/ has_opt(req.opts, "replica_number")
       \/ has_opt(req.opts, "leaf_resource_name")
    THEN Ret(w, PyInt(SUCCESS))
    ELSE LET recs == QueryReplicas(w.cat, req.objPath)
         IN  \* the loop returns at its first row; with no row the function
             \* ends without a return statement
             IF recs = <<>> THEN Ret(w, PyNone)
             ELSE IF w.cat[req.objPath][recs[1]].chk = "none"
             THEN _ensure_replicas_checksum(w, env, req.objPath,
                                            w.cat[req.objPath][recs[1]].hier)
             ELSE Ret(w, PyInt(SUCCESS))

\* "not a and b or c" is "((not a) and b) or c"
replication_pep_api_touch_post(w, req, env) ==
    LET recs == QueryReplicas(w.cat, req.objPath)
        RECURSIVE loop(_, _)
        loop(i, wi) ==
            IF i > Len(recs) THEN Ret(wi, PyInt(SUCCESS))
            ELSE LET rec == wi.cat[req.objPath][recs[i]]
                     repl_resc == _query_repl_resc(root_resc(rec.hier))
                 IN  IF rec.fresh /\ repl_resc # "None"
                     THEN loop(i + 1, _sched_replication(
                                          wi, DataId(req.objPath), repl_resc))
                     ELSE loop(i + 1, wi)
    IN  IF \/ /\ ~has_opt(req.opts, "no_create")
              /\ ~has_opt(req.opts, "replica_number")
           \/ ~has_opt(req.opts, "leaf_resource_name")
        THEN loop(1, w)
        ELSE Ret(w, PyInt(SUCCESS))

----------------------------------------------------------------------------
(* service.py.  Here a world is the list of the calls the rule made, and   *)
(* the request is the user of the session variable other_user.             *)

_SVC_TYPE == "ds-service"

\* the transaction is committed whatever msiCreateUser answers
service_acCreateUser_commits(w, req, env) ==
    IF req.user_type = _SVC_TYPE
    THEN Ret([w EXCEPT !.calls = @ \o <<"msiCreateUser", "msiCommit">>],
             PyInt(SUCCESS))
    ELSE Ret(w, PyInt(RULE_ENGINE_CONTINUE))

\* env.code is the code of the answer of msiCreateUser, whose status is
\* false unless the code is SUCCESS.
service_acCreateUser(w, req, env) ==
    IF req.user_type = _SVC_TYPE
    THEN LET w1 == [w EXCEPT !.calls = Append(@, "msiCreateUser")]
         IN  IF env.code # SUCCESS
             THEN Ret([w1 EXCEPT !.calls = Append(@, "msiRollback")],
                      PyInt(env.code))
             ELSE Ret([w1 EXCEPT !.calls = Append(@, "msiCommit")],
                      PyInt(SUCCESS))
    ELSE Ret(w, PyInt(RULE_ENGINE_CONTINUE))

----------------------------------------------------------------------------
(* cyverse/policy: the checksum and replication modules of the package.    *)
(* Their replica_open and write rules read as those of checksum.py and     *)
(* replication.py.  Each module defines pep_api_replica_close_post twice:  *)
(* the second definition, the one that clears the session, is the one the  *)
(* module keeps, and neither module has pep_api_replica_close_finally.     *)
(* The rules are wrapped by rule.make of the yoda library, which is not    *)
(* part of the repository; each rule is modelled by its body.              *)

policy_checksum_pep_api_replica_open_post(w, req, env) ==
    LET d1 == DictSet(w.ck, "data_path", req.objPath)
        d2 == DictSet(d1, "resc_hier", req.resc_hier)
        d3 == IF req.openFlags = OPEN_FLAG_R
              THEN DictSet(d2, "needs_checksum", FALSE)
              ELSE DictSet(d2, "needs_checksum",
                           req.openType = FILE_CREATE
                           \/ replica_truncated(req.openFlags))
    IN  Ret([w EXCEPT !.ck = d3], PyInt(SUCCESS))

policy_checksum_pep_api_data_obj_write_post(w, req, env) ==
    Ret([w EXCEPT !.ck = DictSet(@, "needs_checksum", TRUE)], PyInt(SUCCESS))

policy_checksum_pep_api_replica_close_post(w, req, env) ==
    Ret([w EXCEPT !.ck = EmptyDict], PyInt(SUCCESS))

policy_replication_pep_api_replica_open_post(w, req, env) ==
    LET d1 == DictSet(w.rp, "data_path", req.objPath)
        d2 == DictSet(d1, "resc_hier", req.resc_hier)
        d4 == IF req.openFlags = OPEN_FLAG_R
              THEN DictSet(DictSet(d2, "created", FALSE), "modified", FALSE)
              ELSE DictSet(DictSet(d2, "created", req.openType = FILE_CREATE),
                           "modified", replica_truncated(req.openFlags))
    IN  Ret([w EXCEPT !.rp = d4], PyInt(SUCCESS))

\* no return statement
policy_replication_pep_api_data_obj_write_post(w, req, env) ==
    Ret([w EXCEPT !.rp = DictSet(@, "modified", TRUE)], PyNone)

policy_replication_pep_api_replica_close_post(w, req, env) ==
    Ret([w EXCEPT !.rp = EmptyDict], PyInt(SUCCESS))

\* getattr(base, pep.__name__) in a module of the package
policy_getattr(base, rule_name, w, req, env) ==
    IF base = "policy.checksum" THEN
        CASE rule_name = "pep_api_replica_open_post" ->
                policy_checksum_pep_api_replica_open_post(w, req, env)
          [] rule_name = "pep_api_data_obj_write_post" ->
                policy_checksum_pep_api_data_obj_write_post(w, req, env)
          [] rule_name = "pep_api_replica_close_post" ->
                policy_checksum_pep_api_replica_close_post(w, req, env)
          [] OTHER -> Ret(w, AttributeError)
    ELSE
        CASE rule_name = "pep_api_replica_open_post" ->
                policy_replication_pep_api_replica_open_post(w, req, env)
          [] rule_name = "pep_api_data_obj_write_post" ->
                policy_replication_pep_api_data_obj_write_post(w, req, env)
          [] rule_name = "pep_api_replica_close_post" ->
                policy_replication_pep_api_replica_close_post(w, req, env)
          [] OTHER -> Ret(w, AttributeError)

----------------------------------------------------------------------------
(* core.py *)

\* getattr(base, rule_name)(rule_args, callback, rei).  The bases "A" and
\* "B" stand for arbitrary rule bases: their rule returns what the event
\* says it returns and touches nothing.
Invoke(base, rule_name, w, req, env) ==
    IF base \in {"A", "B"} THEN Ret(w, env.ret[base])
    ELSE IF base = "service" THEN service_acCreateUser(w, req, env)
    ELSE IF base \in {"policy.checksum", "policy.replication"}
    THEN policy_getattr(base, rule_name, w, req, env)
    ELSE IF base = "checksum" THEN
        CASE rule_name = "pep_api_data_obj_create_post" ->
                checksum_pep_api_data_obj_create_post(w, req, env)
          [] rule_name = "pep_api_data_obj_open_post" ->
                checksum_pep_api_data_obj_open_post(w, req, env)
          [] rule_name = "pep_api_replica_open_post" ->
                checksum_pep_api_replica_open_post(w, req, env)
          [] rule_name = "pep_api_data_obj_write_post" ->
                checksum_pep_api_data_obj_write_post(w, req, env)
          [] rule_name = "pep_api_data_obj_close_post" ->
                checksum_pep_api_data_obj_close_post(w, req, env)
          [] rule_name = "pep_api_data_obj_close_finally" ->
                checksum_pep_api_data_obj_close_finally(w, req, env)
          [] rule_name = "pep_api_replica_close_post" ->
                checksum_pep_api_replica_close_post(w, req, env)
          [] rule_name = "pep_api_replica_close_finally" ->
                checksum_pep_api_replica_close_finally(w, req, env)
          [] rule_name = "async_api_bulk_data_obj_put_post" ->
                checksum_async_api_bulk_data_obj_put_post(w, req, env)
          [] rule_name = "pep_api_data_obj_put_post" ->
                checksum_pep_api_data_obj_put_post(w, req, env)
          [] rule_name = "pep_api_data_obj_copy_post" ->
                checksum_pep_api_data_obj_copy_post(w, req, env)
          [] rule_name = "pep_api_phy_path_reg_post" ->
                checksum_pep_api_phy_path_reg_post(w, req, env)
          [] rule_name = "pep_api_touch_post" ->
                checksum_pep_api_touch_post(w, req, env)
    ELSE
        CASE rule_name = "pep_api_data_obj_create_post" ->
                replication_pep_api_data_obj_create_post(w, req, env)
          [] rule_name = "pep_api_data_obj_open_post" ->
                replication_pep_api_data_obj_open_post(w, req, env)
          [] rule_name = "pep_api_replica_open_post" ->
                replication_pep_api_replica_open_post(w, req, env)
          [] rule_name = "pep_api_data_obj_write_post" ->
                replication_pep_api_data_obj_write_post(w, req, env)
          [] rule_name = "pep_api_data_obj_close_post" ->
                replication_pep_api_data_obj_close_post(w, req, env)
          [] rule_name = "pep_api_data_obj_close_finally" ->
                replication_pep_api_data_obj_close_finally(w, req, env)
          [] rule_name = "pep_api_replica_close_post" ->
                replication_pep_api_replica_close_post(w, req, env)
          [] rule_name = "pep_api_replica_close_finally" ->
                replication_pep_api_replica_close_finally(w, req, env)
          [] rule_name = "async_api_bulk_data_obj_put_post" ->
                replication_async_api_bulk_data_obj_put_post(w, req, env)
          [] rule_name = "pep_api_data_obj_put_post" ->
                replication_pep_api_data_obj_put_post(w, req, env)
          [] rule_name = "pep_api_data_obj_copy_post" ->
                replication_pep_api_data_obj_copy_post(w, req, env)
          [] rule_name = "pep_api_phy_path_reg_post" ->
                replication_pep_api_phy_path_reg_post(w, req, env)
          [] rule_name = "pep_api_touch_post" ->
                replication_pep_api_touch_post(w, req, env)

\* What a hook hands to the rule engine: the world it leaves, its response
\* (an exception when one escapes) and the rule bases it invoked, in order.
Out(w, resp, invoked) == [w |-> w, resp |-> resp, invoked |-> invoked]

Break_never(cont_on_fail) == FALSE

\* "break" of the loop of _compose_rules.
Break(cont_on_fail) == ~cont_on_fail

_compose_rules(rule_bases, rule_name, w, req, env, success_resp, fail_resp, cont_on_fail) ==
    LET RECURSIVE loop(_, _, _), after(_, _, _)
        \* r is what the rule of rule base i returned
        after(i, r, resp) ==
              LET called == SubSeq(rule_bases, 1, i)
              IN  IF IsExc(r.res) THEN Out(r.w, r.res, called)
                  \* res < irods_extra.SUCCESS is a TypeError unless res is
                  \* a number
                  ELSE IF r.res.t # "int" THEN Out(r.w, TypeError, called)
                  ELSE IF r.res.v < SUCCESS
                  THEN LET resp1 == IF resp = success_resp
                                    THEN (IF Truthy(fail_resp) THEN fail_resp
                                          ELSE r.res)
                                    ELSE resp
                       IN  IF Break(cont_on_fail)
                           THEN Out(r.w, resp1, called)
                           ELSE loop(i + 1, r.w, resp1)
                  ELSE loop(i + 1, r.w, resp)
        loop(i, wi, resp) ==
            IF i > Len(rule_bases) THEN Out(wi, resp, rule_bases)
            ELSE after(i, Invoke(rule_bases[i], rule_name, wi, req, env), resp)
    IN  loop(1, w, success_resp)

\* The keyword arguments each hook of core.py gives to _compose_rules.
Binding(success_resp, fail_resp, cont_on_fail) ==
    [success_resp |-> success_resp, fail_resp |-> fail_resp,
     cont_on_fail |-> cont_on_fail]

Default == Binding(PyInt(RULE_ENGINE_CONTINUE), PyInt(_RE_DONE), FALSE)

HookBinding(rule_name) ==
    CASE rule_name = "acCreateUser" ->
            [Default EXCEPT !.fail_resp = PyNone, !.cont_on_fail = TRUE]
      [] rule_name = "acSetRescSchemeForCreate" ->
            [Default EXCEPT !.success_resp = PyInt(_RE_DONE),
                            !.fail_resp = PyNone]
      [] rule_name \in {"pep_api_data_obj_create_post",
                        "pep_api_data_obj_open_post",
                        "pep_api_replica_open_post",
                        "pep_api_data_obj_write_post"} ->
            [Default EXCEPT !.fail_resp = PyNone]
      [] rule_name \in {"pep_api_data_obj_close_finally",
                        "pep_api_replica_close_finally"} ->
            [Default EXCEPT !.fail_resp = PyInt(RULE_ENGINE_CONTINUE),
                            !.cont_on_fail = TRUE]
      [] rule_name = "async_api_bulk_data_obj_put_post" ->
            [Default EXCEPT !.success_resp = PyInt(_RE_DONE)]
      [] OTHER -> Default

HookNames ==
    {"acCreateUser", "acSetRescSchemeForCreate", "acSetRescSchemeForRepl",
     "pep_api_data_obj_copy_post", "pep_api_data_obj_put_post",
     "pep_api_phy_path_reg_post", "pep_api_touch_post",
     "pep_api_data_obj_create_post", "pep_api_data_obj_open_post",
     "pep_api_replica_open_post", "pep_api_data_obj_write_post",
     "pep_api_data_obj_close_post", "pep_api_data_obj_close_finally",
     "pep_api_replica_close_post", "pep_api_replica_close_finally",
     "async_api_bulk_data_obj_put_post"}

\* A hook of core.py bound to rule_bases.
Hook(rule_bases, rule_name, w, req, env) ==
    LET b == HookBinding(rule_name)
    IN  _compose_rules(rule_bases, rule_name, w, req, env,
                       b.success_resp, b.fail_resp, b.cont_on_fail)

----------------------------------------------------------------------------
(* The events.  The rule engine dispatches one event at a time and runs its *)
(* hook to completion.  A post hook follows the operation of the storage    *)
(* engine it is bound to, so the catalog already shows that operation.      *)

ChkCodes == {SUCCESS, USER_CHKSUM_MISMATCH}
StubRets == {PyInt(SUCCESS), PyInt(RULE_ENGINE_CONTINUE),
             PyInt(SYS_RESC_DOES_NOT_EXIST), PyInt(USER_CHKSUM_MISMATCH)}
NoRets == [b \in {"A", "B"} |-> PyInt(SUCCESS)]
\* The answers of the storage engine during one event: every checksum it
\* is asked for succeeds, or every one fails.
Envs == {[chkAll |-> c, chk |-> [n \in ReplNums |-> c], ret |-> NoRets] :
            c \in ChkCodes}
\* the answers of a storage engine that is never asked
NoEnv == [chkAll |-> SUCCESS, chk |-> [n \in ReplNums |-> SUCCESS],
          ret |-> NoRets]

CreateFlags == {OPEN_FLAG_A_CREATE, OPEN_FLAG_AP_CREATE, OPEN_FLAG_W_CREATE,
                OPEN_FLAG_WP_CREATE}
OpenFlags == {OPEN_FLAG_R, OPEN_FLAG_A, OPEN_FLAG_RP, OPEN_FLAG_W,
              OPEN_FLAG_WP} \cup CreateFlags
ChksumOpts == {{}, {"regChksum"}, {"verifyChksum"}}

NoReq == [objPath |-> "", resc_hier |-> NoHier, openFlags |-> "",
          openType |-> "", opts |-> {}, compute_checksum |-> "absent"]

\* History of the write sequence in progress: the event that opened it,
\* the replica it works on, what that event asked for, and whether a write
\* followed.  phase is "idle" (no event yet), "cleaned" (no create/open
\* since the last close-cleanup), "opened", "closed" (one primary close
\* since the opening event) or "over" (more than one).
IdleSeq == [phase |-> "idle", opener |-> "none", path |-> "", replNum |-> 0,
            resc_hier |-> NoHier, opts |-> {}, readonly |-> FALSE,
            create |-> FALSE, truncate |-> FALSE, written |-> FALSE]

CleanSeq == [IdleSeq EXCEPT !.phase = "cleaned"]

Opening(opener, req, n) ==
    [phase |-> "opened", opener |-> opener, path |-> req.objPath,
     replNum |-> n, resc_hier |-> req.resc_hier, opts |-> req.opts,
     readonly |-> req.openFlags = OPEN_FLAG_R,
     create |-> opener = "create" \/ req.openType = FILE_CREATE,
     truncate |-> replica_truncated(req.openFlags), written |-> FALSE]

\* The delay queue of the model holds MaxTasks rules.
Fits(out) == Len(out.w.queue) <= MaxTasks

\* The bookkeeping every event shares: the hook's world becomes the state,
\* and last records the event.
Finish(rule_name, rule_bases, req, rets, out, seq1) ==
    /\ ck_write_props' = out.w.ck
    /\ rp_write_props' = out.w.rp
    /\ delay_time' = out.w.delay_time
    /\ delay_queue' = out.w.queue
    /\ catalog' = out.w.cat
    /\ last' = [hook |-> rule_name, bases |-> rule_bases,
                compute_checksum |-> req.compute_checksum,
                rets |-> rets, resp |-> out.resp, invoked |-> out.invoked,
                chks |-> out.w.chks, repls |-> out.w.repls,
                sched |-> out.w.sched, logs |-> out.w.logs,
                pre |-> [ck |-> DOMAIN ck_write_props,
                         rp |-> DOMAIN rp_write_props]]
    /\ seq' = seq1

Policy_replication_first == <<"replication", "checksum">>

Policy == <<"checksum", "replication">>

\* The storage engine creates the first replica of a new data object.
NewReplica(cat, p, h) ==
    [cat EXCEPT ![p][0] = [hier |-> h, chk |-> "none"]]

\* The storage engine changes the bytes of a replica.
Modified(cat, p, n) == [cat EXCEPT ![p][n].chk = "none"]

\* data_obj_create: the object p is created on the hierarchy h.
Create(p, h, hopt, opts) ==
    /\ hopt \in {h, NoHier}
    /\ ~ObjExists(catalog, p)
    /\ LET req == [NoReq EXCEPT !.objPath = p, !.resc_hier = hopt,
                                !.opts = opts]
           cat0 == NewReplica(catalog, p, h)
           out == Hook(Policy, "pep_api_data_obj_create_post",
                       [World EXCEPT !.cat = cat0], req, NoEnv)
       IN  /\ Fits(out)
           /\ Finish("pep_api_data_obj_create_post", Policy, req, NoRets, out,
                  Opening("create", req, 0))

\* What the storage engine did when it opened replica n of p with flags:
\* it created the object, or truncated the replica, or left it alone.
Opened(cat, p, n, h, flags) ==
    IF ~ObjExists(cat, p) THEN NewReplica(cat, p, h)
    ELSE IF replica_truncated(flags) THEN Modified(cat, p, n)
    ELSE cat

OpenReq(p, n, h, flags, hopt) ==
    [NoReq EXCEPT !.objPath = p, !.resc_hier = hopt, !.openFlags = flags,
                  !.openType = IF ~ObjExists(catalog, p) THEN FILE_CREATE
                               ELSE IF flags = OPEN_FLAG_R THEN FILE_OPEN_READ
                               ELSE FILE_OPEN_WRITE]

CanOpen(p, n, h, flags) ==
    IF ObjExists(catalog, p)
    THEN catalog[p][n].chk # "absent" /\ catalog[p][n].hier = h
    ELSE n = 0 /\ flags \in CreateFlags

\* data_obj_open
Open(p, n, h, flags, hopt) ==
    /\ hopt \in {h, NoHier}
    /\ CanOpen(p, n, h, flags)
    /\ LET req == OpenReq(p, n, h, flags, hopt)
           cat0 == Opened(catalog, p, n, h, flags)
           out == Hook(Policy, "pep_api_data_obj_open_post",
                       [World EXCEPT !.cat = cat0], req, NoEnv)
       IN  /\ Fits(out)
           /\ Finish("pep_api_data_obj_open_post", Policy, req, NoRets, out,
                  Opening("open", req, n))

\* replica_open
ReplicaOpen(p, n, h, flags, hopt) ==
    /\ hopt \in {h, NoHier}
    /\ CanOpen(p, n, h, flags)
    /\ LET req == OpenReq(p, n, h, flags, hopt)
           cat0 == Opened(catalog, p, n, h, flags)
           out == Hook(Policy, "pep_api_replica_open_post",
                       [World EXCEPT !.cat = cat0], req, NoEnv)
       IN  /\ Fits(out)
           /\ Finish("pep_api_replica_open_post", Policy, req, NoRets, out,
                  Opening("replica_open", req, n))

\* data_obj_write: the bytes go to the replica of the open sequence.
Write ==
    LET writes == seq.phase = "opened" /\ ~seq.readonly
        cat0 == IF writes THEN Modified(catalog, seq.path, seq.replNum)
                ELSE catalog
        out == Hook(Policy, "pep_api_data_obj_write_post",
                    [World EXCEPT !.cat = cat0], NoReq, NoEnv)
    IN  /\ Fits(out)
        /\ Finish("pep_api_data_obj_write_post", Policy, NoReq, NoRets, out,
               [seq EXCEPT !.written = TRUE])

Closed == CASE seq.phase = "opened" -> [seq EXCEPT !.phase = "closed"]
            [] seq.phase = "closed" -> [seq EXCEPT !.phase = "over"]
            [] OTHER -> seq

\* data_obj_close
Close(env) ==
    LET out == Hook(Policy, "pep_api_data_obj_close_post", World, NoReq, env)
    IN  /\ Fits(out)
        /\ Finish("pep_api_data_obj_close_post", Policy, NoReq, NoRets, out,
               Closed)

CloseFinally ==
    LET out == Hook(Policy, "pep_api_data_obj_close_finally", World, NoReq,
                    NoEnv)
    IN  /\ Fits(out)
        /\ Finish("pep_api_data_obj_close_finally", Policy, NoReq, NoRets, out,
               CleanSeq)

\* replica_close, whose JSON input may ask the storage engine for the
\* checksum
ReplicaClose(cc, env) ==
    LET req == [NoReq EXCEPT !.compute_checksum = cc]
        out == Hook(Policy, "pep_api_replica_close_post", World, req, env)
    IN  /\ Fits(out)
        /\ Finish("pep_api_replica_close_post", Policy, req, NoRets, out,
               Closed)

ReplicaCloseFinally ==
    LET out == Hook(Policy, "pep_api_replica_close_finally", World, NoReq,
                    NoEnv)
    IN  /\ Fits(out)
        /\ Finish("pep_api_replica_close_finally", Policy, NoReq, NoRets, out,
               CleanSeq)

\* Any hook of core.py bound to two rule bases whose rules return rets.
Compose(rule_name, rets) ==
    LET env == [NoEnv EXCEPT !.ret = rets]
        out == Hook(<<"A", "B">>, rule_name, World, NoReq, env)
    IN  /\ Fits(out)
        /\ Finish(rule_name, <<"A", "B">>, NoReq, rets, out, seq)

----------------------------------------------------------------------------
(* The API events that need no session: put, copy, registration and bulk   *)
(* upload, and the delay server that runs the rules handed to delayExec.   *)

Objs == Paths \cup {"/zone/home/alice/h"}

\* Here a replica also says whether its create and modify times are equal.
NoReplApi == [hier |-> NoHier, chk |-> "absent", fresh |-> FALSE]

ReplCodes ==
    {SUCCESS, CAT_NOT_ROWS_FOUND, CAT_UNKNOWN_FILE, SYS_NOT_ALLOWED,
     SYS_RESC_DOES_NOT_EXIST, USER_CHKSUM_MISMATCH, SYS_COPY_LEN_ERR}

\* The answers of the storage engine during one event, and whether the
\* irods_errors module in use has the attribute CAT_NOT_ROWS_FOUND.  Every
\* object gets the same answer, or each one of three.
ApiEnvs ==
    {[chkAll |-> c, chk |-> [n \in ReplNums |-> c], ret |-> NoRets,
      repl |-> r, errors_has_name |-> e] :
        c \in ChkCodes, e \in BOOLEAN,
        r \in {[p \in Objs |-> code] : code \in ReplCodes}
              \cup [Objs -> {SUCCESS, SYS_RESC_DOES_NOT_EXIST,
                             SYS_COPY_LEN_ERR}]}

\* The events that ask for no replication need only the checksum answers.
ChkEnvs == {env \in ApiEnvs : env.errors_has_name
                              /\ \A p \in Objs : env.repl[p] = SUCCESS}

\* A delayed replicate or sync_replicas asks for no checksum and for one
\* replication.
TaskEnvs == {env \in ApiEnvs : env.chkAll = SUCCESS
                               /\ \A p, q \in Objs : env.repl[p] = env.repl[q]}

ApiOpts == {{}, {"regChksum"}, {"verifyChksum"}}

\* The object put, copy and registration work on.
ApiPaths == {"/zone/home/alice/f"}

\* The delay queue of these events holds MaxQueue rules, and the throttle
\* counts to MaxDelay.
FitsApi(out) ==
    Len(out.w.queue) <= MaxQueue /\ out.w.delay_time < MaxDelay

\* The storage engine stores the bytes of p: a new object on h, or the
\* overwritten replica 0 of an existing one.
Stored(cat, p, h) ==
    IF ObjExists(cat, p)
    THEN [cat EXCEPT ![p][0].chk = "none", ![p][0].fresh = FALSE]
    ELSE [cat EXCEPT ![p][0] = [hier |-> h, chk |-> "none", fresh |-> TRUE]]

CanStore(cat, p, h) == ObjExists(cat, p) => cat[p][0].hier = h

ApiReq(p, h, hopt, opts) ==
    [NoReq EXCEPT !.objPath = p, !.resc_hier = hopt, !.opts = opts,
                  !.openType = IF ObjExists(catalog, p) THEN FILE_OPEN_WRITE
                               ELSE FILE_CREATE]

\* data_obj_put
Put(p, h, hopt, opts, env) ==
    /\ hopt \in {h, NoHier}
    /\ CanStore(catalog, p, h)
    /\ LET req == ApiReq(p, h, hopt, opts)
           out == Hook(Policy, "pep_api_data_obj_put_post",
                       [World EXCEPT !.cat = Stored(catalog, p, h)], req, env)
       IN  /\ FitsApi(out)
           /\ Finish("pep_api_data_obj_put_post", Policy, req, NoRets, out,
                     seq)

\* data_obj_copy to the destination p
Copy(p, h, hopt, opts, env) ==
    /\ hopt \in {h, NoHier}
    /\ CanStore(catalog, p, h)
    /\ LET req == ApiReq(p, h, hopt, opts)
           out == Hook(Policy, "pep_api_data_obj_copy_post",
                       [World EXCEPT !.cat = Stored(catalog, p, h)], req, env)
       IN  /\ FitsApi(out)
           /\ Finish("pep_api_data_obj_copy_post", Policy, req, NoRets, out,
                     seq)

\* phy_path_reg: a file on h becomes the first replica of a new object p,
\* or with regRepl another replica of the existing object p, on a resource
\* that holds none yet.
Registered(cat, p, h, opts) ==
    [cat EXCEPT ![p][IF has_opt(opts, "regRepl") THEN 1 ELSE 0] =
        [hier |-> h, chk |-> "none", fresh |-> TRUE]]

Reg(p, h, hopt, opts, env) ==
    /\ hopt \in {h, NoHier}
    /\ IF has_opt(opts, "regRepl")
       THEN /\ catalog[p][0].chk # "absent" /\ catalog[p][1].chk = "absent"
            /\ catalog[p][0].hier # h
       ELSE ~ObjExists(catalog, p)
    /\ LET req == [NoReq EXCEPT !.objPath = p, !.resc_hier = hopt,
                                !.opts = opts]
           out == Hook(Policy, "pep_api_phy_path_reg_post",
                       [World EXCEPT !.cat = Registered(catalog, p, h, opts)],
                       req, env)
       IN  /\ FitsApi(out)
           /\ Finish("pep_api_phy_path_reg_post", Policy, req, NoRets, out,
                     seq)

\* The objects one bulk upload carries.
BulkLists ==
    {<<"/zone/home/alice/g">>,
     <<"/zone/home/alice/f", "/zone/home/alice/g", "/zone/home/alice/h">>}

BulkOpts == {{}, {"forceFlag"}, {"regChksum"}, {"forceFlag", "verifyChksum"}}

BulkReq(objs, hopt, opts) ==
    [objPath |-> "", resc_hier |-> hopt, openFlags |-> "", openType |-> "",
     opts |-> opts, compute_checksum |-> "absent", objs |-> objs]

RECURSIVE StoredAll(_, _, _)
StoredAll(cat, objs, h) ==
    IF objs = <<>> THEN cat
    ELSE StoredAll(Stored(cat, Head(objs), h), Tail(objs), h)

\* pep_api_bulk_data_obj_put_post of core.py: the request goes, serialised,
\* to the delay server, which runs async_api_bulk_data_obj_put_post once.
pep_api_bulk_data_obj_put_post(w, req) ==
    LET w1 == next_delay(w)
        t == [rule |-> "async_api_bulk_data_obj_put_post", data_id |-> "",
              dest_resc |-> "", delay |-> w1.delay_time, req |-> req]
    IN  Out([w1 EXCEPT !.queue = Append(@, t), !.sched = Append(@, t)],
            PyInt(RULE_ENGINE_CONTINUE), <<>>)

\* bulk_data_obj_put: without forceFlag every object is new.
BulkPut(objs, h, hopt, opts) ==
    /\ hopt \in {h, NoHier}
    /\ \A i \in DOMAIN objs :
            IF has_opt(opts, "forceFlag") THEN CanStore(catalog, objs[i], h)
            ELSE ~ObjExists(catalog, objs[i])
    /\ LET req == BulkReq(objs, hopt, opts)
           out == pep_api_bulk_data_obj_put_post(
                      [World EXCEPT !.cat = StoredAll(catalog, objs, h)], req)
       IN  /\ FitsApi(out)
           /\ Finish("pep_api_bulk_data_obj_put_post", <<>>, req, NoRets, out,
                     seq)

Without(q, i) == SubSeq(q, 1, i - 1) \o SubSeq(q, i + 1, Len(q))

\* What the delay server does with a rule it ran: a rule handed over with
\* REPEAT UNTIL SUCCESS stays queued until it returns a success code.
Requeued(task, w, res) ==
    IF res.t = "int" /\ res.v >= SUCCESS THEN w
    ELSE [w EXCEPT !.queue = <<task>> \o @]

\* The delay server runs the bulk rule i of the queue, once.
RunBulk(i, env) ==
    /\ i \in DOMAIN delay_queue
    /\ delay_queue[i].rule = "async_api_bulk_data_obj_put_post"
    /\ LET task == delay_queue[i]
           w0 == [World EXCEPT !.queue = Without(delay_queue, i)]
           out == Hook(Policy, "async_api_bulk_data_obj_put_post", w0,
                       task.req, env)
       IN  /\ FitsApi(out)
           /\ Finish("async_api_bulk_data_obj_put_post", Policy, task.req,
                     NoRets, out, seq)

\* The delay server runs the rule i of the queue, replicate or
\* sync_replicas.
RunTask(i, env) ==
    /\ i \in DOMAIN delay_queue
    /\ delay_queue[i].rule \in {"replicate", "sync_replicas"}
    /\ LET task == delay_queue[i]
           w0 == [World EXCEPT !.queue = Without(delay_queue, i)]
           r == IF task.rule = "replicate" THEN replicate(w0, task, env)
                ELSE sync_replicas(w0, task, env)
           out == Out(Requeued(task, r.w, r.res), r.res, <<"replication">>)
       IN  /\ FitsApi(out)
           /\ Finish(task.rule, <<"replication">>, NoReq, NoRets, out, seq)

----------------------------------------------------------------------------

InitCatalog ==
    [p \in Paths |->
        IF p = "/zone/home/alice/g"
        THEN [n \in ReplNums |->
                IF n = 0 THEN [hier |-> HierA, chk |-> "ok"] ELSE NoRepl]
        ELSE [n \in ReplNums |-> NoRepl]]

Init ==
    /\ ck_write_props = EmptyDict
    /\ rp_write_props = EmptyDict
    /\ delay_time = -1
    /\ delay_queue = <<>>
    /\ catalog = InitCatalog
    /\ last = [hook |-> "", bases |-> <<>>, compute_checksum |-> "absent",
               rets |-> NoRets, resp |-> PyNone, invoked |-> <<>>,
               chks |-> <<>>, repls |-> <<>>, sched |-> <<>>, logs |-> 0,
               pre |-> [ck |-> {}, rp |-> {}]]
    /\ seq = IdleSeq

Next ==
    \/ \E p \in Paths, h \in Hiers, hopt \in Hiers \cup {NoHier},
          opts \in ChksumOpts :
            Create(p, h, hopt, opts)
    \/ \E p \in Paths, n \in ReplNums, h \in Hiers, flags \in OpenFlags,
          hopt \in Hiers \cup {NoHier} :
            Open(p, n, h, flags, hopt)
    \/ \E p \in Paths, n \in ReplNums, h \in Hiers, flags \in OpenFlags,
          hopt \in Hiers \cup {NoHier} :
            ReplicaOpen(p, n, h, flags, hopt)
    \/ Write
    \/ \E env \in Envs : Close(env)
    \/ CloseFinally
    \/ \E cc \in {"absent", "false", "true"}, env \in Envs :
            ReplicaClose(cc, env)
    \/ ReplicaCloseFinally

Spec == Init /\ [][Next]_vars

\* The composition engine on its own: every hook of core.py over two rule
\* bases and every pair of return values.
NextCompose ==
    \E rule_name \in HookNames, rets \in [{"A", "B"} -> StubRets] :
        Compose(rule_name, rets)

SpecCompose == Init /\ [][NextCompose]_vars

\* Put, copy, registration, bulk upload and the delay server, from an empty
\* catalog.
InitApi ==
    /\ ck_write_props = EmptyDict
    /\ rp_write_props = EmptyDict
    /\ delay_time = -1
    /\ delay_queue = <<>>
    /\ catalog = [p \in Objs |-> [n \in ReplNums |-> NoReplApi]]
    /\ last = [hook |-> "", bases |-> <<>>, compute_checksum |-> "absent",
               rets |-> NoRets, resp |-> PyNone, invoked |-> <<>>,
               chks |-> <<>>, repls |-> <<>>, sched |-> <<>>, logs |-> 0,
               pre |-> [ck |-> {}, rp |-> {}]]
    /\ seq = IdleSeq

NextApi ==
    \/ \E p \in ApiPaths, h \in Hiers, hopt \in Hiers \cup {NoHier},
          opts \in ApiOpts, env \in ChkEnvs :
            Put(p, h, hopt, opts, env)
    \/ \E p \in ApiPaths, h \in Hiers, hopt \in Hiers \cup {NoHier},
          opts \in ApiOpts, env \in ChkEnvs :
            Copy(p, h, hopt, opts, env)
    \/ \E p \in ApiPaths, h \in Hiers, hopt \in Hiers \cup {NoHier},
          opts \in ApiOpts \cup {{"regRepl"}}, env \in ChkEnvs :
            Reg(p, h, hopt, opts, env)
    \/ \E i \in 1..MaxQueue, env \in TaskEnvs : RunTask(i, env)

SpecApi == InitApi /\ [][NextApi]_vars

\* Bulk uploads and the delay server, from a catalog that holds the objects
\* f and h, uploaded and replicated some time ago.
OldObject ==
    [n \in ReplNums |->
        IF n = 0 THEN [hier |-> HierA, chk |-> "ok", fresh |-> FALSE]
        ELSE [hier |-> <<"rescB">>, chk |-> "ok", fresh |-> FALSE]]

InitBulk ==
    /\ ck_write_props = EmptyDict
    /\ rp_write_props = EmptyDict
    /\ delay_time = -1
    /\ delay_queue = <<>>
    /\ catalog = [p \in Objs |->
                    IF p = "/zone/home/alice/g"
                    THEN [n \in ReplNums |-> NoReplApi] ELSE OldObject]
    /\ last = [hook |-> "", bases |-> <<>>, compute_checksum |-> "absent",
               rets |-> NoRets, resp |-> PyNone, invoked |-> <<>>,
               chks |-> <<>>, repls |-> <<>>, sched |-> <<>>, logs |-> 0,
               pre |-> [ck |-> {}, rp |-> {}]]
    /\ seq = IdleSeq

NextBulk ==
    \/ \E objs \in BulkLists, h \in Hiers, hopt \in Hiers \cup {NoHier},
          opts \in BulkOpts :
            BulkPut(objs, h, hopt, opts)
    \/ \E i \in 1..MaxQueue, env \in ApiEnvs : RunBulk(i, env)
    \/ \E i \in 1..MaxQueue, env \in TaskEnvs : RunTask(i, env)

SpecBulk == InitBulk /\ [][NextBulk]_vars

----------------------------------------------------------------------------
(* Properties *)

PrimaryClose == {"pep_api_data_obj_close_post", "pep_api_replica_close_post"}
CloseCleanup == {"pep_api_data_obj_close_finally",
                 "pep_api_replica_close_finally"}

Failed(res) == res.t = "int" /\ res.v < SUCCESS

TwoBases == last.bases = <<"A", "B">>

\* C1: with continueOnFailure = false, when the rule of A returns a failing
\* code the rule of B is not invoked.
C1_StopAtFirstFailure ==
    (TwoBases /\ ~HookBinding(last.hook).cont_on_fail
        /\ Failed(last.rets["A"]))
    => last.invoked = <<"A">>

C1_Witness ==
    /\ TwoBases
    /\ last.hook = "pep_api_data_obj_put_post"
    /\ last.rets["A"] = PyInt(SYS_RESC_DOES_NOT_EXIST)
    /\ last.invoked = <<"A">>

\* The code of the first rule base that failed.
FirstFailure ==
    IF Failed(last.rets["A"]) THEN last.rets["A"] ELSE last.rets["B"]

\* C2: with stop-on-failure composition a failure is answered with the
\* configured failure code (0 for the hooks bound with the default), and
\* with the failing rule's own code only when none is configured.
C2_ConfiguredFailureCode ==
    (TwoBases /\ ~HookBinding(last.hook).cont_on_fail
        /\ (Failed(last.rets["A"]) \/ Failed(last.rets["B"])))
    => last.resp = IF HookBinding(last.hook).fail_resp # PyNone
                   THEN HookBinding(last.hook).fail_resp
                   ELSE FirstFailure

\* C3: with continueOnFailure = true, when A fails and B succeeds, B is
\* still invoked and the response differs from the success code; the
\* close-cleanup hooks answer with the code of the first rule that failed.
C3_ContinueReportsFailure ==
    (TwoBases /\ HookBinding(last.hook).cont_on_fail
        /\ Failed(last.rets["A"]) /\ ~Failed(last.rets["B"]))
    => /\ last.invoked = <<"A", "B">>
       /\ last.resp # HookBinding(last.hook).success_resp
       /\ last.hook \in CloseCleanup => last.resp = last.rets["A"]

\* C4: after a close-cleanup event the session records of the checksum and
\* of the replication rule base are both empty.
C4_CleanupClearsSessions ==
    last.hook \in CloseCleanup
    => ck_write_props = EmptyDict /\ rp_write_props = EmptyDict

C4_Witness ==
    /\ last.hook = "pep_api_data_obj_close_finally"
    /\ last.pre.ck # {} /\ last.pre.rp # {}
    /\ ck_write_props = EmptyDict /\ rp_write_props = EmptyDict

\* C5: from a close-cleanup to the next create/open/replica-open the
\* session records stay empty, whatever is dispatched in between.
C5_EmptyUntilNextOpen ==
    seq.phase = "cleaned"
    => ck_write_props = EmptyDict /\ rp_write_props = EmptyDict

\* C6: a primary close with no session active does nothing and reports
\* success: no checksum or replication call, nothing scheduled, no
\* exception.
C6_CloseWithoutSession ==
    (last.hook \in PrimaryClose /\ last.pre.ck = {} /\ last.pre.rp = {})
    => /\ last.resp = PyInt(RULE_ENGINE_CONTINUE)
       /\ last.chks = <<>> /\ last.repls = <<>> /\ last.sched = <<>>

\* The primary close of a sequence create -> write* -> close.
CreateClosed ==
    /\ last.hook = "pep_api_data_obj_close_post"
    /\ seq.phase = "closed"
    /\ seq.opener = "create"

HasChecksum == catalog[seq.path][seq.replNum].chk = "ok"

ChksumsSucceeded ==
    \A i \in DOMAIN last.chks : last.chks[i].code = SUCCESS

ReadOnlyClosed ==
    /\ last.hook \in PrimaryClose
    /\ seq.phase = "closed"
    /\ seq.opener \in {"open", "replica_open"}
    /\ seq.readonly /\ ~seq.written

\* C8: open(read-only) -> close makes no checksum call, no replication
\* call and schedules nothing.
C8_ReadOnlyDoesNothing ==
    ReadOnlyClosed
    => last.chks = <<>> /\ last.repls = <<>> /\ last.sched = <<>>

C8_Witness ==
    /\ ReadOnlyClosed
    /\ last.hook = "pep_api_data_obj_close_post"
    /\ last.invoked = Policy
    /\ last.resp = PyInt(RULE_ENGINE_CONTINUE)

\* The primary close of a sequence open(write mode, no creation) -> write
\* -> close.
ModifyClosed ==
    /\ last.hook \in PrimaryClose
    /\ seq.phase = "closed"
    /\ seq.opener \in {"open", "replica_open"}
    /\ ~seq.readonly /\ ~seq.create /\ seq.written

SyncAttempted ==
    \E i \in DOMAIN last.repls :
        last.repls[i].rule = "sync_replicas" /\ last.repls[i].path = seq.path

TransientFailure ==
    \E i \in DOMAIN last.repls : last.repls[i].res < SUCCESS

SyncTask(p) ==
    [rule |-> "sync_replicas", data_id |-> DataId(p), dest_resc |-> "",
     delay |-> delay_time]

\* The checksum rule of the last event returned success: it asked for no
\* checksum of all replicas, and every checksum it asked for succeeded.
ChecksumStepSucceeded ==
    \A i \in DOMAIN last.chks :
        last.chks[i].code = SUCCESS /\ last.chks[i].sel # "ChksumAll"

CreateOnRescA ==
    /\ CreateClosed /\ seq.opts = {}
    /\ catalog[seq.path][0].hier = HierA

ReplicateAttempted ==
    \E i \in DOMAIN last.repls :
        /\ last.repls[i].rule = "replicate"
        /\ last.repls[i].path = seq.path
        /\ last.repls[i].dest_resc = "rescB"

ReplicateTask(p) ==
    [rule |-> "replicate", data_id |-> DataId(p), dest_resc |-> "rescB",
     delay |-> delay_time]

----------------------------------------------------------------------------
(* Replication attempts: the bulk rule and the delayed rules *)

DelayedRules == {"replicate", "sync_replicas"}

\* The last event ran a rule that attempts replications: the asynchronous
\* bulk rule of replication.py, or a delayed rule.
Attempting ==
    \/ last.hook \in DelayedRules
    \/ /\ last.hook = "async_api_bulk_data_obj_put_post"
       /\ Len(last.invoked) = 2

\* The attempt i of the last event is tried again later: the bulk rule
\* scheduled its rule, or the delayed rule that made it reports a failure
\* to the delay server.
Retried(i) ==
    IF last.hook \in DelayedRules THEN Failed(last.resp)
    ELSE \E k \in DOMAIN last.sched :
            /\ last.sched[k].rule = last.repls[i].rule
            /\ last.sched[k].data_id = DataId(last.repls[i].path)

Succeeded == last.resp.t = "int" /\ last.resp.v >= SUCCESS

TransientCalls ==
    {i \in DOMAIN last.repls :
        last.repls[i].res # SUCCESS /\ ~Absorbed(last.repls[i].res)}

----------------------------------------------------------------------------
(* The checksum invariant *)

\* The open sequence has had its primary close, by the close that belongs
\* to the event that opened it.
Completed ==
    /\ seq.phase = "closed"
    /\ \/ /\ seq.opener \in {"create", "open"}
          /\ last.hook = "pep_api_data_obj_close_post"
       \/ /\ seq.opener = "replica_open"
          /\ last.hook = "pep_api_replica_close_post"

\* The cleanup that belongs to the primary close that came last.
CleanupOf(close) ==
    IF close = "pep_api_data_obj_close_post"
    THEN "pep_api_data_obj_close_finally"
    ELSE "pep_api_replica_close_finally"

\* The sequence created or modified its replica.
WroteReplica == seq.create \/ seq.truncate \/ seq.written

\* The declared opt-outs: regChksum or verifyChksum on the opening event,
\* compute_checksum on replica close.
OptedOut == seq.opts # {} \/ last.compute_checksum = "true"

SeqHasChecksum == catalog'[seq.path][seq.replNum].chk = "ok"

----------------------------------------------------------------------------
(* Replication of a created object, with the delay server *)

\* The storage engine replicates whatever it is asked to.
OkEnv == CHOOSE env \in TaskEnvs :
            env.errors_has_name /\ \A p \in Objs : env.repl[p] = SUCCESS

\* The delay server runs a queued rule at a time at which the storage
\* engine can replicate.
RunOk == \E i \in 1..MaxQueue : RunTask(i, OkEnv)

\* Objects are created and closed, and the delay server runs the rules the
\* closes hand it.
NextLive ==
    \/ \E p \in Paths, h \in Hiers, hopt \in Hiers \cup {NoHier},
          opts \in ChksumOpts :
            Create(p, h, hopt, opts)
    \/ Write
    \/ \E env \in Envs : Close(env)
    \/ CloseFinally
    \/ \E i \in 1..MaxQueue, env \in TaskEnvs : RunTask(i, env)

\* <EF>8h REPEAT UNTIL SUCCESS</EF>: the delay server keeps running a rule
\* it holds, and the failures of the storage engine do not last.
SpecLive == Init /\ [][NextLive]_vars /\ WF_vars(RunOk)

PeerReplica(p) == catalog[p][1].chk # "absent"

\* The replicate rule of p met a failure it does not retry.
GaveUp(p) ==
    /\ last.hook = "replicate"
    /\ last.resp = PyInt(SUCCESS)
    /\ \E i \in DOMAIN last.repls :
          last.repls[i].path = p /\ last.repls[i].res # SUCCESS

----------------------------------------------------------------------------
(* Objects on a resource without a replication resource *)

\* The first replica of p is on a resource that has no
\* cyverse::replica-resource.
Unbound(p) ==
    /\ ObjExists(catalog, p)
    /\ _query_repl_resc(root_resc(catalog[p][0].hier)) = "None"

\* The calls of cb.msiDataObjRepl the last event made for p, and the rules
\* it handed to the delay server for p.
ReplCalls(p) == {i \in DOMAIN last.repls : last.repls[i].path = p}
ReplTasks(p) == {i \in DOMAIN last.sched : last.sched[i].data_id = DataId(p)}

\* C15 as stated: for an object on an unbound resource no event attempts a
\* replication or schedules a replicate or sync_replicas rule.
C15_UnboundIsNoOp ==
    \A p \in DOMAIN catalog :
        Unbound(p) => ReplCalls(p) = {} /\ ReplTasks(p) = {}

\* C15 amended: for an object on an unbound resource no event replicates to
\* a second resource or schedules a replicate rule; a modification still
\* schedules sync_replicas, whatever the binding.
C15_UnboundNeverReplicates ==
    \A p \in DOMAIN catalog :
        Unbound(p)
        => /\ \A i \in ReplCalls(p) : last.repls[i].rule = "sync_replicas"
           /\ \A i \in ReplTasks(p) : last.sched[i].rule = "sync_replicas"

\* An upload that created an object on the unbound rescC: both rule bases
\* ran and replication did nothing.
C15_Witness ==
    /\ last.hook = "pep_api_data_obj_put_post"
    /\ last.invoked = <<"checksum", "replication">>
    /\ last.chks # <<>>
    /\ \E p \in ApiPaths :
          /\ Unbound(p) /\ catalog[p][0].fresh
          /\ last.chks[1].path = p
          /\ ReplCalls(p) = {} /\ ReplTasks(p) = {}

----------------------------------------------------------------------------
(* The checksum gate of put, copy, registration and bulk upload *)

\* Put, copy, registration and bulk upload together, each at a time at
\* which the delay server has run every rule it was handed, with a storage
\* engine that replicates whatever it is asked to.
GatePut(p, h, hopt, opts, env) ==
    /\ delay_queue = <<>>
    /\ Put(p, h, hopt, opts, env)

GateCopy(p, h, hopt, opts, env) ==
    /\ delay_queue = <<>>
    /\ Copy(p, h, hopt, opts, env)

GateReg(p, h, hopt, opts, env) ==
    /\ delay_queue = <<>>
    /\ Reg(p, h, hopt, opts, env)

GateBulkPut(objs, h, hopt, opts) ==
    /\ delay_queue = <<>>
    /\ BulkPut(objs, h, hopt, opts)

NextGate ==
    \/ \E p \in ApiPaths, h \in Hiers, hopt \in Hiers \cup {NoHier},
          opts \in ApiOpts, env \in ChkEnvs :
            GatePut(p, h, hopt, opts, env)
    \/ \E p \in ApiPaths, h \in Hiers, hopt \in Hiers \cup {NoHier},
          opts \in ApiOpts, env \in ChkEnvs :
            GateCopy(p, h, hopt, opts, env)
    \/ \E p \in ApiPaths, h \in Hiers, hopt \in Hiers \cup {NoHier},
          opts \in ApiOpts \cup {{"regRepl"}}, env \in ChkEnvs :
            GateReg(p, h, hopt, opts, env)
    \/ \E objs \in BulkLists, h \in Hiers, hopt \in Hiers \cup {NoHier},
          opts \in BulkOpts :
            GateBulkPut(objs, h, hopt, opts)
    \/ \E i \in 1..MaxQueue, env \in ChkEnvs : RunBulk(i, env)
    \/ \E i \in 1..MaxQueue : RunTask(i, OkEnv)

SpecGate == InitApi /\ [][NextGate]_vars

\* What the checksum rule of the event that just ran did, for a request
\* with the options opts about the objects objs on hopt: with an opt-out no
\* checksum is asked for and the hook goes on to the replication rule;
\* without, one checksum is asked for each object, of its replica on hopt,
\* or, when the request names no hierarchy, of all replicas of the first.
Gated(optout, objs, hopt) ==
    IF optout
    THEN last'.chks = <<>> /\ last'.invoked = Policy
    ELSE IF hopt # NoHier
    THEN /\ Len(last'.chks) = Len(objs)
         /\ \A i \in DOMAIN objs :
               last'.chks[i].path = objs[i] /\ last'.chks[i].sel = "0"
    ELSE /\ Len(last'.chks) = 1
         /\ last'.chks[1].path = objs[1] /\ last'.chks[1].sel = "ChksumAll"

ChksumOptOut(opts) == has_opt(opts, "regChksum") \/ has_opt(opts, "verifyChksum")

----------------------------------------------------------------------------
(* Routing of a forced bulk upload *)

\* The replication calls the event that just ran made for p, by rule.
Routed(p, rule) ==
    \E i \in DOMAIN last'.repls :
        last'.repls[i].path = p /\ last'.repls[i].rule = rule

\* p, as the bulk rule finds it: every replica has equal create and modify
\* times, or every replica has different ones.
AllFresh(p) == \A n \in ReplNums : catalog[p][n].chk # "absent"
                                   => catalog[p][n].fresh
NoneFresh(p) == \A n \in ReplNums : catalog[p][n].chk # "absent"
                                    => ~catalog[p][n].fresh

\* Create-replica logic replicates to the replication resource of the
\* request's resource, if it has one; sync-peer logic resynchronises.
RoutedByTimes(req) ==
    \A k \in DOMAIN req.objs :
        LET p == req.objs[k]
        IN  /\ AllFresh(p)
               => /\ ~Routed(p, "sync_replicas")
                  /\ _query_repl_resc(root_resc(req.resc_hier)) # "None"
                     => Routed(p, "replicate")
            /\ NoneFresh(p)
               => Routed(p, "sync_replicas") /\ ~Routed(p, "replicate")

\* The step is RunBulk(i, env), for some env, of a forced upload.
ForcedBulk(i) ==
    /\ i \in DOMAIN delay_queue
    /\ delay_queue[i].rule = "async_api_bulk_data_obj_put_post"
    /\ has_opt(delay_queue[i].req.opts, "forceFlag")
    /\ last'.hook = "async_api_bulk_data_obj_put_post"
    /\ delay_queue' = Without(delay_queue, i) \o last'.sched

------

----------------------------------------------------------------------------
(* residency.py.  Paths are strings, here sequences of characters, so that *)
(* startswith and the lexicographic order of the catalog are what they are *)
(* in the code.                                                            *)

MaxDepth == 2       \* collections on the path of a hosted collection
MaxRules == 2       \* AVUs ipc::hosted-collection in the catalog

_RESIDENCY_FORCE == "forced"
_RESIDENCY_PREF == "preferred"

\* The code point of a character.
Ord(c) == CASE c = "-" -> 45 [] c = "/" -> 47 [] c = "a" -> 97

\* The names of collections and data objects: "a" and "a-".
Names == {<<"a">>, <<"a", "-">>}

\* The absolute path made of names: "/" before each.
RECURSIVE Join(_)
Join(names) ==
    IF names = <<>> THEN <<>>
    ELSE <<"/">> \o Head(names) \o Join(Tail(names))

CollPaths == {Join(names) : names \in UNION {[1..k -> Names] : k \in 1..MaxDepth}}

\* The path of a data object names at least a collection and the object.
DataPaths ==
    {Join(names) : names \in UNION {[1..k -> Names] : k \in 2..(MaxDepth + 1)}}

\* str.startswith
startswith(s, prefix) ==
    /\ Len(prefix) <= Len(s)
    /\ \A i \in 1..Len(prefix) : s[i] = prefix[i]

\* s sorts before t in the order of the catalog: at the first position where
\* they differ s has the smaller character, or s ends there.
StrLess(s, t) ==
    \E k \in 1..Len(t) :
        /\ k - 1 <= Len(s)
        /\ \A i \in 1..(k - 1) : s[i] = t[i]
        /\ (k > Len(s) \/ Ord(s[k]) < Ord(t[k]))

\* str.lower on the units of an AVU
lower(units) ==
    CASE units = "FORCED" -> "forced"
      [] units = "Preferred" -> "preferred"
      [] OTHER -> units

\* irods_extra.default_resc(): default_resource_name of server_config.json
default_resc == "demoResc"

\* The AVUs ipc::hosted-collection: the collection path, the units and the
\* resource that carries the AVU.
HostedRules ==
    {[coll |-> c, units |-> a.units, resc |-> a.resc] :
        c \in CollPaths,
        a \in {[units |-> "FORCED", resc |-> "rescA"],
               [units |-> "Preferred", resc |-> "rescC"]}}

RuleSets ==
    {{}} \cup {{r} : r \in HostedRules}
         \cup {{r, q} : r \in HostedRules, q \in HostedRules}

Orders(rules) ==
    {rows \in [1..Cardinality(rules) -> rules] :
        \A i, j \in DOMAIN rows : i # j => rows[i] # rows[j]}

RowsAscending(rules) ==
    {rows \in Orders(rules) :
        \A i, j \in DOMAIN rows :
            i < j => ~StrLess(rows[j].coll, rows[i].coll)}

\* genquery.Query with ORDER_DESC(META_RESC_ATTR_VALUE): the rows in
\* descending order of the collection path; rows with equal paths come in
\* the order the catalog keeps them in.
HostedRows(rules) ==
    {rows \in Orders(rules) :
        \A i, j \in DOMAIN rows :
            i < j => ~StrLess(rows[i].coll, rows[j].coll)}

\* The scheme is the pair (resource, residency).
Scheme(resc, residency) == [resc |-> resc, residency |-> residency]

_query_create_scheme(rows, data_path) ==
    LET matches == {i \in DOMAIN rows : startswith(data_path, rows[i].coll)}
    IN  IF matches = {} THEN Scheme(default_resc, _RESIDENCY_PREF)
        ELSE LET first == CHOOSE i \in matches : \A j \in matches : i <= j
             IN  Scheme(rows[first].resc, lower(rows[first].units))

\* What a rule of residency.py works on: the resource selection it leaves
\* and the lines it logs.
NoScheme == Scheme("", "")
ResWorld == [set |-> NoScheme, logs |-> 0]

\* ctx.msiSetDefaultResc(resc, 'forced' or 'preferred'), which answers code;
\* w.set records what the storage engine was told.
_set_default_scheme(w, scheme, code) ==
    Ret([w EXCEPT !.set = Scheme(scheme.resc,
                                 IF scheme.residency = _RESIDENCY_FORCE
                                 THEN "forced" ELSE "preferred")],
        PyInt(code))

\* A rule of residency.py after it has its scheme: it tells the storage
\* engine, logs a failure, and returns the code.
SetScheme(scheme, code) ==
    LET r == _set_default_scheme(ResWorld, scheme, code)
    IN  [scheme |-> scheme,
         w |-> IF code < SUCCESS THEN [r.w EXCEPT !.logs = @ + 1] ELSE r.w,
         res |-> r.res]

acSetRescSchemeForCreate(cat, data_path, code) ==
    SetScheme(_query_create_scheme(cat.hosted, data_path), code)

\* What last records of a rule of residency.py.
ResLast(rule_name, out) ==
    [hook |-> rule_name, scheme |-> out.scheme, set |-> out.w.set,
     logs |-> out.w.logs, resp |-> out.res]

\* The rule engine runs acSetRescSchemeForCreate for the data object of the
\* session.
SetRescSchemeForCreate(code) ==
    /\ last' = ResLast("acSetRescSchemeForCreate",
                       acSetRescSchemeForCreate(catalog, catalog.data_path,
                                                code))
    /\ UNCHANGED <<ck_write_props, rp_write_props, delay_time, delay_queue,
                   catalog, seq>>

\* The catalog holds up to MaxRules hosted collections, as it lists them,
\* and the session is about one data object.
InitCreateScheme ==
    /\ ck_write_props = EmptyDict
    /\ rp_write_props = EmptyDict
    /\ delay_time = -1
    /\ delay_queue = <<>>
    /\ \E rules \in RuleSets, data_path \in DataPaths :
          \E rows \in HostedRows(rules) :
              catalog = [hosted |-> rows, data_path |-> data_path]
    /\ last = ResLast("", [scheme |-> NoScheme, w |-> ResWorld,
                           res |-> PyNone])
    /\ seq = IdleSeq

NextCreateScheme ==
    \E code \in {SUCCESS, SYS_RESC_DOES_NOT_EXIST} :
        SetRescSchemeForCreate(code)

SpecCreateScheme == InitCreateScheme /\ [][NextCreateScheme]_vars

\* The hosted collections whose path the path of the object starts with.
Matching == {i \in DOMAIN catalog.hosted :
                startswith(catalog.data_path, catalog.hosted[i].coll)}

\* C18: acSetRescSchemeForCreate selects a hosted collection whose path the
\* object's path starts with and than which no other such path is longer,
\* and the default resource, preferred, when there is none; it tells the
\* storage engine that resource.
C18_MostSpecificRule ==
    last.hook = "acSetRescSchemeForCreate"
    => /\ IF Matching = {}
          THEN last.scheme = Scheme(default_resc, "preferred")
          ELSE \E i \in Matching :
                  /\ \A j \in Matching :
                        Len(catalog.hosted[j].coll)
                            <= Len(catalog.hosted[i].coll)
                  /\ last.scheme.resc = catalog.hosted[i].resc
                  /\ last.scheme.residency = lower(catalog.hosted[i].units)
       /\ last.set.resc = last.scheme.resc

\* The example: /a and /a/a- are hosted, the object is /a/a-/a, and the
\* resource of /a/a- is selected.
C18_Witness ==
    /\ last.hook = "acSetRescSchemeForCreate"
    /\ catalog.data_path = Join(<<<<"a">>, <<"a", "-">>, <<"a">>>>)
    /\ Len(catalog.hosted) = 2
    /\ catalog.hosted[1] = [coll |-> Join(<<<<"a">>, <<"a", "-">>>>),
                            units |-> "FORCED", resc |-> "rescA"]
    /\ catalog.hosted[2].coll = Join(<<<<"a">>>>)
    /\ catalog.hosted[2].resc = "rescC"
    /\ last.scheme = Scheme("rescA", "forced")

----------------------------------------------------------------------------
(* acSetRescSchemeForRepl: the resource selection for a replication.       *)

IndexError == [t |-> "IndexError", v |-> 0]

\* No AVU ipc::replica-resource on a resource.
NoBinding == [value |-> "None", units |-> ""]

\* The AVUs ipc::replica-resource a resource may carry.
Bindings ==
    [rescA : {NoBinding, [value |-> "rescB", units |-> "forced"],
              [value |-> "rescB", units |-> "FORCED"]},
     rescC : {NoBinding, [value |-> "rescD", units |-> "preferred"]}]

\* DATA_REPL_STATUS: '0' is stale, '1' is good.
ReplStatuses == {"0", "1"}

\* The rows (DATA_RESC_HIER, DATA_REPL_STATUS) of a data object, in the
\* order the catalog lists them: none, one, or two on different resources.
ReplicaRows ==
    {<<>>}
    \cup {<<[hier |-> h, status |-> s]>> : h \in Hiers, s \in ReplStatuses}
    \cup {rows \in [1..2 -> [hier : Hiers, status : ReplStatuses]] :
            rows[1].hier # rows[2].hier}

\* The first row of the AVU ipc::replica-resource of resc, or NoBinding.
_query_repl_scheme(cat, resc) ==
    IF resc \in DOMAIN cat.bound THEN cat.bound[resc] ELSE NoBinding

get_repl_resc(cat, resc) == _query_repl_scheme(cat, resc).value

acSetRescSchemeForRepl_first_row(cat, data_path, code) ==
    IF Len(cat.replicas) = 0
    THEN [scheme |-> NoScheme, w |-> ResWorld, res |-> IndexError]
    ELSE LET repl_scheme ==
                 _query_repl_scheme(cat, root_resc(cat.replicas[1].hier))
         IN  SetScheme(IF repl_scheme = NoBinding
                       THEN _query_create_scheme(cat.hosted, data_path)
                       ELSE Scheme(repl_scheme.value, repl_scheme.units),
                       code)

acSetRescSchemeForRepl(cat, data_path, code) ==
    LET cur_rescs == [i \in DOMAIN cat.replicas |->
                        [resc |-> root_resc(cat.replicas[i].hier),
                         status |-> cat.replicas[i].status]]
    IN  IF Len(cur_rescs) = 0
        THEN [scheme |-> NoScheme, w |-> ResWorld, res |-> IndexError]
        ELSE LET cur_resc ==
                     IF Len(cur_rescs) = 1 THEN cur_rescs[1].resc
                     ELSE IF cur_rescs[1].status # "1" THEN cur_rescs[2].resc
                     ELSE IF cur_rescs[2].status # "1" THEN cur_rescs[1].resc
                     ELSE "None"
                 repl_scheme ==
                     IF cur_resc # "None"
                     THEN _query_repl_scheme(cat, cur_resc) ELSE NoBinding
             IN  SetScheme(IF repl_scheme = NoBinding
                           THEN _query_create_scheme(cat.hosted, data_path)
                           ELSE Scheme(repl_scheme.value, repl_scheme.units),
                           code)

\* The rule engine runs acSetRescSchemeForRepl for the data object of the
\* session.
SetRescSchemeForRepl(code) ==
    /\ last' = ResLast("acSetRescSchemeForRepl",
                       acSetRescSchemeForRepl(catalog, catalog.data_path,
                                              code))
    /\ UNCHANGED <<ck_write_props, rp_write_props, delay_time, delay_queue,
                   catalog, seq>>

\* The catalog holds at most one hosted collection, the bindings of rescA
\* and rescC and the replicas of the data object of the session.
InitReplScheme ==
    /\ ck_write_props = EmptyDict
    /\ rp_write_props = EmptyDict
    /\ delay_time = -1
    /\ delay_queue = <<>>
    /\ \E rows \in {<<>>} \cup {<<r>> : r \in HostedRules},
          data_path \in DataPaths, replicas \in ReplicaRows,
          bound \in Bindings :
          catalog = [hosted |-> rows, data_path |-> data_path,
                     replicas |-> replicas, bound |-> bound]
    /\ last = ResLast("", [scheme |-> NoScheme, w |-> ResWorld,
                           res |-> PyNone])
    /\ seq = IdleSeq

NextReplScheme ==
    \E code \in {SUCCESS, SYS_RESC_DOES_NOT_EXIST} :
        SetRescSchemeForRepl(code)

SpecReplScheme == InitReplScheme /\ [][NextReplScheme]_vars

\* The resources of the replicas that are not flagged stale; of the only
\* replica when there is one.
Primaries ==
    IF Len(catalog.replicas) = 1
    THEN {root_resc(catalog.replicas[1].hier)}
    ELSE {root_resc(catalog.replicas[i].hier) :
            i \in {j \in DOMAIN catalog.replicas :
                      catalog.replicas[j].status # "0"}}

\* The resource the storage engine is told when resc is the primary: the
\* one bound to resc, or that of the create scheme of the object path.
SelectedFor(resc) ==
    IF _query_repl_scheme(catalog, resc) # NoBinding
    THEN _query_repl_scheme(catalog, resc).value
    ELSE _query_create_scheme(catalog.hosted, catalog.data_path).resc

\* C19: for a data object with one or two replicas acSetRescSchemeForRepl
\* takes as primary the resource of the only replica, or of a replica that
\* is not flagged stale, and selects the resource bound to the primary, or
\* that of the create scheme of the object path when none is bound.
C19_PrimaryThenBinding ==
    (/\ last.hook = "acSetRescSchemeForRepl"
     /\ Len(catalog.replicas) \in {1, 2}
     /\ Primaries # {})
    => \E resc \in Primaries : last.set.resc = SelectedFor(resc)

\* The replicas of the object that are good.
Good == {i \in DOMAIN catalog.replicas : catalog.replicas[i].status = "1"}

\* C19 (amended): for a data object with one replica, or with two of which
\* one is good, acSetRescSchemeForRepl takes the resource of the only or of
\* the good replica as primary and selects the resource bound to it, or
\* that of the create scheme of the object path when none is bound.  With
\* two good replicas it takes no primary and selects the resource of the
\* create scheme; with two stale ones the primary is the resource of the
\* replica the catalog lists second.
C19_PrimaryThenBindingOneGood ==
    (/\ last.hook = "acSetRescSchemeForRepl"
     /\ Len(catalog.replicas) \in {1, 2})
    => LET create ==
               _query_create_scheme(catalog.hosted, catalog.data_path).resc
       IN  CASE Len(catalog.replicas) = 1 ->
                    last.set.resc
                        = SelectedFor(root_resc(catalog.replicas[1].hier))
             [] Len(catalog.replicas) = 2 /\ Cardinality(Good) = 1 ->
                    \E i \in Good :
                        last.set.resc
                            = SelectedFor(root_resc(catalog.replicas[i].hier))
             [] Len(catalog.replicas) = 2 /\ Cardinality(Good) = 2 ->
                    last.set.resc = create
             [] OTHER ->
                    last.set.resc
                        = SelectedFor(root_resc(catalog.replicas[2].hier))

\* The stale replica on rescC is listed first, the good one is on rescA,
\* which is bound to rescB: rescB is selected.
C19_Witness ==
    /\ last.hook = "acSetRescSchemeForRepl"
    /\ Len(catalog.replicas) = 2
    /\ catalog.replicas[1] = [hier |-> HierC, status |-> "0"]
    /\ catalog.replicas[2] = [hier |-> HierA, status |-> "1"]
    /\ catalog.bound.rescA.value = "rescB"
    /\ catalog.bound.rescC.value = "rescD"
    /\ last.set.resc = "rescB"

----------------------------------------------------------------------------
(* The delay throttle.                                                     *)

\* C20: the throttle starts before 0, and the delays of the rules an event
\* schedules, retries and the bulk rule alike, are the next values of the
\* throttle in scheduling order, one each: every delay is one more than the
\* delay of the request before it, whichever event made that request.
C20_DelaysStrictlyIncrease ==
    /\ delay_time = -1
    /\ [][/\ delay_time' = delay_time + Len(last'.sched)
          /\ \A k \in 1..Len(last'.sched) :
                last'.sched[k].delay = delay_time + k]_vars

\* The bulk rule was scheduled first, with delay 0, and when it ran it
\* scheduled two replication rules, with delays 1 and 2.
C20_Witness ==
    /\ last.hook = "async_api_bulk_data_obj_put_post"
    /\ Len(last.sched) = 2
    /\ last.sched[1].delay = 1
    /\ last.sched[2].delay = 2
    /\ \A k \in 1..2 : last.sched[k].rule \in {"replicate", "sync_replicas"}
    /\ delay_time = 2

----------------------------------------------------------------------------
(* What reaches the rule engine *)

\* C21: whatever the session state and the request, the hook of an event
\* answers the rule engine with an integer: no exception leaves it and it
\* hands back no value of another type.
C21_IntegerStatus ==
    last.hook # "" => last.resp.t = "int"

----------------------------------------------------------------------------
(* Two write sequences on one connection.  The client holds two open data  *)
(* objects at once: sequence A creates f, sequence B opens g for writing.  *)
(* Their events interleave; every event runs the hook of core.py bound to  *)
(* checksum and replication.  Here seq records, for each sequence, how far *)
(* it is and whether a checksum or a replication was asked for its object, *)
(* and which sequence wrote the session records last.                      *)

Clients == {"A", "B"}

SeqPath(x) == IF x = "A" THEN "/zone/home/alice/f" ELSE "/zone/home/alice/g"

NoClients ==
    [ph |-> [x \in Clients |-> "none"], owner |-> "none", actor |-> "none",
     chk |-> [x \in Clients |-> FALSE], rep |-> [x \in Clients |-> FALSE]]

\* What the event of sequence x leaves in seq: its phase, and the objects
\* the hook asked a checksum or scheduled a replication for.
Acted(x, phase, owner, out) ==
    [ph |-> [seq.ph EXCEPT ![x] = phase], owner |-> owner, actor |-> x,
     chk |-> [y \in Clients |->
                seq.chk[y] \/ \E i \in DOMAIN out.w.chks :
                                  out.w.chks[i].path = SeqPath(y)],
     rep |-> [y \in Clients |->
                seq.rep[y] \/ \E i \in DOMAIN out.w.sched :
                                  out.w.sched[i].data_id = DataId(SeqPath(y))]]

\* Sequence x starts: data_obj_create of a new object, data_obj_open of an
\* existing one.
Start(x, flags) ==
    /\ seq.ph[x] = "none"
    /\ LET p == SeqPath(x)
           new == ~ObjExists(catalog, p)
           rule_name == IF new THEN "pep_api_data_obj_create_post"
                        ELSE "pep_api_data_obj_open_post"
           req == IF new
                  THEN [NoReq EXCEPT !.objPath = p, !.resc_hier = HierA]
                  ELSE OpenReq(p, 0, HierA, flags, HierA)
           cat0 == Opened(catalog, p, 0, HierA, flags)
           out == Hook(Policy, rule_name, [World EXCEPT !.cat = cat0], req,
                       NoEnv)
       IN  /\ FitsApi(out)
           /\ Finish(rule_name, Policy, req, NoRets, out,
                     Acted(x, "opened", x, out))

\* data_obj_write of sequence x
WriteOf(x) ==
    /\ seq.ph[x] = "opened"
    /\ LET out == Hook(Policy, "pep_api_data_obj_write_post",
                       [World EXCEPT !.cat = Modified(catalog, SeqPath(x), 0)],
                       NoReq, NoEnv)
       IN  /\ FitsApi(out)
           /\ Finish("pep_api_data_obj_write_post", Policy, NoReq, NoRets,
                     out, Acted(x, "opened", seq.owner, out))

\* data_obj_close of sequence x
CloseOf(x, env) ==
    /\ seq.ph[x] = "opened"
    /\ LET out == Hook(Policy, "pep_api_data_obj_close_post", World, NoReq,
                       env)
       IN  /\ FitsApi(out)
           /\ Finish("pep_api_data_obj_close_post", Policy, NoReq, NoRets,
                     out, Acted(x, "closed", seq.owner, out))

\* the cleanup that follows the close of sequence x
CleanupOfSeq(x) ==
    /\ seq.ph[x] = "closed"
    /\ LET out == Hook(Policy, "pep_api_data_obj_close_finally", World, NoReq,
                       NoEnv)
       IN  /\ FitsApi(out)
           /\ Finish("pep_api_data_obj_close_finally", Policy, NoReq, NoRets,
                     out, Acted(x, "done", "none", out))

InitInterleave ==
    /\ ck_write_props = EmptyDict
    /\ rp_write_props = EmptyDict
    /\ delay_time = -1
    /\ delay_queue = <<>>
    /\ catalog = InitCatalog
    /\ last = [hook |-> "", bases |-> <<>>, compute_checksum |-> "absent",
               rets |-> NoRets, resp |-> PyNone, invoked |-> <<>>,
               chks |-> <<>>, repls |-> <<>>, sched |-> <<>>, logs |-> 0,
               pre |-> [ck |-> {}, rp |-> {}]]
    /\ seq = NoClients

NextInterleave ==
    \/ \E x \in Clients, flags \in {OPEN_FLAG_A, OPEN_FLAG_W, OPEN_FLAG_W_CREATE} :
            Start(x, flags)
    \/ \E x \in Clients : WriteOf(x)
    \/ \E x \in Clients, env \in Envs : CloseOf(x, env)
    \/ \E x \in Clients : CleanupOfSeq(x)

SpecInterleave == InitInterleave /\ [][NextInterleave]_vars

\* The objects the last event asked a checksum or scheduled a rule for.
ActedOn ==
    {last.chks[i].path : i \in DOMAIN last.chks}
    \cup {p \in Paths : \E i \in DOMAIN last.sched :
                            last.sched[i].data_id = DataId(p)}

\* C22: the session belongs to the sequence that opened last: it holds that
\* sequence's path and flags.  A primary close acts on the object of that
\* sequence only, whichever sequence closes, and on none once a cleanup has
\* emptied the session; so when B opens between A's open and A's close, A's
\* close acts on B's object by B's flags, B's close after A's cleanup acts
\* on nothing, and A's created replica gets neither checksum nor
\* replication.
C22_CloseActsOnLastOpened ==
    /\ seq.owner # "none"
       => /\ ck_write_props["data_path"] = SeqPath(seq.owner)
          /\ rp_write_props["data_path"] = SeqPath(seq.owner)
    /\ last.hook = "pep_api_data_obj_close_post"
       => /\ seq.owner = "none" => ActedOn = {}
          /\ seq.owner # "none"
             => /\ ActedOn \subseteq {SeqPath(seq.owner)}
                /\ ck_write_props["needs_checksum"] => last.chks # <<>>

\* Both sequences are over; B opened between A's create and A's close, and
\* B closed after A's cleanup: B's object got the checksum and the rule, A's
\* created replica got neither and has no checksum.
C22_Witness ==
    /\ seq.ph["A"] = "done" /\ seq.ph["B"] = "done"
    /\ seq.chk["B"] /\ seq.rep["B"]
    /\ ~seq.chk["A"] /\ ~seq.rep["A"]
    /\ catalog[SeqPath("A")][0].chk = "none"
    /\ delay_time = 0

----------------------------------------------------------------------------
(* _ensure_replicas_checksum on its own: any catalog of the object f, any  *)
(* hierarchy asked for, and any answers of the storage engine.  The rows   *)
(* of the query are whatever the catalog holds: the function does not rely *)
(* on a hierarchy holding one replica.                                     *)

EnsureCodes == {SUCCESS, USER_CHKSUM_MISMATCH, SYS_RESC_DOES_NOT_EXIST}

\* The storage engine answers each request on its own.
EnsureEnvs ==
    {[chkAll |-> c, chk |-> k, ret |-> NoRets] :
        c \in EnsureCodes, k \in [ReplNums -> EnsureCodes]}

EnsureCatalogs ==
    {[p \in Paths |-> IF p = "/zone/home/alice/f" THEN r
                      ELSE [n \in ReplNums |-> NoRepl]] :
        r \in [ReplNums -> {NoRepl} \cup [hier : Hiers, chk : {"none", "ok"}]]}

\* A session in progress, as create leaves it.
SomeSession ==
    [k \in {"data_path", "resc_hier", "needs_checksum"} |->
        CASE k = "data_path" -> "/zone/home/alice/g"
          [] k = "resc_hier" -> HierA
          [] OTHER -> TRUE]

\* A rule calls _ensure_replicas_checksum(cb, data_path, resc_hier).
EnsureChecksum(data_path, resc_hier, env) ==
    LET out == _ensure_replicas_checksum(World, env, data_path, resc_hier)
    IN  /\ ck_write_props' = out.w.ck
        /\ rp_write_props' = out.w.rp
        /\ delay_time' = out.w.delay_time
        /\ delay_queue' = out.w.queue
        /\ catalog' = out.w.cat
        /\ last' = [hook |-> "_ensure_replicas_checksum",
                    data_path |-> data_path, resc_hier |-> resc_hier,
                    env |-> env, res |-> out.res, chks |-> out.w.chks,
                    sched |-> out.w.sched, logs |-> out.w.logs,
                    pre_ok |-> \A n \in ReplNums :
                                  catalog[data_path][n].chk \in {"absent", "ok"},
                    again |-> /\ last.hook = "_ensure_replicas_checksum"
                              /\ last.resc_hier = resc_hier
                              /\ last.pre_ok]
        /\ UNCHANGED seq

InitEnsure ==
    /\ ck_write_props \in {EmptyDict, SomeSession}
    /\ rp_write_props = EmptyDict
    /\ delay_time = -1
    /\ delay_queue = <<>>
    /\ catalog \in EnsureCatalogs
    /\ ObjExists(catalog, "/zone/home/alice/f")
    /\ last = [hook |-> "", data_path |-> "", resc_hier |-> NoHier,
               env |-> NoEnv, res |-> PyNone, chks |-> <<>>, sched |-> <<>>,
               logs |-> 0, pre_ok |-> FALSE, again |-> FALSE]
    /\ seq = IdleSeq

NextEnsure ==
    \E resc_hier \in Hiers \cup {NoHier}, env \in EnsureEnvs :
        EnsureChecksum("/zone/home/alice/f", resc_hier, env)

SpecEnsure == InitEnsure /\ [][NextEnsure]_vars

\* Every replica of the object has a checksum.
AllChecksummed(cat, p) ==
    \A n \in ReplNums : cat[p][n].chk \in {"absent", "ok"}

----------------------------------------------------------------------------
(* The outcome of a primary close *)

\* The replication session is active: an opening event filled it and no
\* cleanup has emptied it.
ActiveSession ==
    {"data_path", "resc_hier", "created", "modified"}
        \subseteq DOMAIN rp_write_props

\* What the flags of the session ask of a close: a replicate rule toward
\* the resource bound to the root of the recorded hierarchy when created is
\* set, a sync_replicas rule when only modified is, nothing otherwise.
FlagOutcome ==
    LET p == rp_write_props["data_path"]
        peer == _query_repl_resc(root_resc(rp_write_props["resc_hier"]))
    IN  IF rp_write_props["created"]
        THEN IF peer = "None" THEN <<>>
             ELSE <<[rule |-> "replicate", data_id |-> DataId(p),
                     dest_resc |-> peer, delay |-> delay_time]>>
        ELSE IF rp_write_props["modified"] THEN <<SyncTask(p)>>
        ELSE <<>>

\* C24 as stated: a primary close with an active session schedules what the
\* flags ask for.
C24_CloseOutcome ==
    (last.hook \in PrimaryClose /\ ActiveSession)
    => last.sched = FlagOutcome

\* C24 amended: it does when the checksum rule of the close returned
\* success, and schedules nothing otherwise; it attempts no replication
\* itself.
C24_CloseOutcomeAfterChecksum ==
    (last.hook \in PrimaryClose /\ ActiveSession)
    => /\ last.repls = <<>>
       /\ last.sched = IF ChecksumStepSucceeded THEN FlagOutcome ELSE <<>>

\* A replica created on rescA and written to: the close schedules its
\* replication to rescB, not a resync.
C24_Witness ==
    /\ last.hook = "pep_api_data_obj_close_post"
    /\ ActiveSession
    /\ rp_write_props["created"] /\ rp_write_props["modified"]
    /\ Len(last.sched) = 1
    /\ last.sched[1].rule = "replicate"
    /\ last.sched[1].dest_resc = "rescB"

----------------------------------------------------------------------------
(* The session flags *)

OpeningHooks == {"pep_api_data_obj_create_post", "pep_api_data_obj_open_post",
                 "pep_api_replica_open_post"}

\* C25: after create the session holds created, not modified, and
\* needs_checksum; after an open or replica open in read-only mode none of
\* the three; after one in another mode created says whether the open type
\* was file creation, modified whether the flags truncate, and
\* needs_checksum whether either holds.
C25_FlagsAfterOpening ==
    last.hook \in OpeningHooks
    => LET created == IF last.hook = "pep_api_data_obj_create_post" THEN TRUE
                      ELSE ~seq.readonly /\ seq.create
           modified == IF last.hook = "pep_api_data_obj_create_post" THEN FALSE
                       ELSE ~seq.readonly /\ seq.truncate
       IN  /\ rp_write_props["created"] = created
           /\ rp_write_props["modified"] = modified
           /\ ck_write_props["needs_checksum"] = (created \/ modified)
           /\ rp_write_props["data_path"] = seq.path
           /\ ck_write_props["data_path"] = seq.path

\* An existing object is opened with flags that create and truncate: the
\* open type is not file creation, so created is not set, and modified is.
C25_Witness ==
    /\ last.hook = "pep_api_data_obj_open_post"
    /\ ~seq.create /\ seq.truncate /\ ~seq.readonly
    /\ ~rp_write_props["created"]
    /\ rp_write_props["modified"]
    /\ ck_write_props["needs_checksum"]

\* The keys of d other than k hold what they hold in e.
SameBut(d, e, k) ==
    /\ DOMAIN d \ {k} = DOMAIN e \ {k}
    /\ \A x \in DOMAIN d \ {k} : d[x] = e[x]

\* C26: a write event sets modified and needs_checksum and leaves every
\* other entry of the session records as it was; from then on both stay set
\* until a cleanup or the next create, open or replica open.
C26_WriteSetsModified ==
    [][/\ last'.hook = "pep_api_data_obj_write_post"
          => /\ rp_write_props'["modified"] /\ ck_write_props'["needs_checksum"]
             /\ SameBut(rp_write_props', rp_write_props, "modified")
             /\ SameBut(ck_write_props', ck_write_props, "needs_checksum")
       /\ (/\ has_key(rp_write_props, "modified") /\ rp_write_props["modified"]
           /\ seq.written
           /\ last'.hook \notin OpeningHooks \cup CloseCleanup)
          => /\ has_key(rp_write_props', "modified")
             /\ rp_write_props'["modified"]
             /\ ck_write_props'["needs_checksum"]]_vars

\* A write after a read-write open of an existing object, then a close:
\* modified is still set, created is still unset.
C26_Witness ==
    /\ last.hook = "pep_api_data_obj_close_post"
    /\ seq.written /\ ~seq.create /\ ~seq.truncate /\ ~seq.readonly
    /\ ActiveSession /\ has_key(ck_write_props, "needs_checksum")
    /\ rp_write_props["modified"] /\ ~rp_write_props["created"]
    /\ ck_write_props["needs_checksum"]
    /\ rp_write_props["data_path"] = seq.path

----------------------------------------------------------------------------
(* Checksum before replication *)

InSeq(x, s) == \E i \in DOMAIN s : s[i] = x

\* C27: in an event bound to both rule bases the checksum rule is invoked
\* first, the replication rule after it or not at all; and a primary close
\* schedules or attempts a replication only after its checksum rule was
\* invoked and returned success.
C27_ChecksumBeforeReplication ==
    (InSeq("checksum", last.bases) /\ InSeq("replication", last.bases))
    => /\ last.invoked \in {<<"checksum">>, <<"checksum", "replication">>}
       /\ (last.hook \in PrimaryClose
           /\ (last.sched # <<>> \/ last.repls # <<>>))
          => /\ last.invoked = <<"checksum", "replication">>
             /\ ChecksumStepSucceeded
             /\ \A i \in DOMAIN last.sched :
                    last.sched[i].data_id = DataId(rp_write_props["data_path"])
             /\ ck_write_props["data_path"] = rp_write_props["data_path"]

\* A close whose checksum succeeded on the replica of the session and that
\* then scheduled the replication of that object.
C27_Witness ==
    /\ last.hook = "pep_api_data_obj_close_post"
    /\ last.invoked = <<"checksum", "replication">>
    /\ Len(last.chks) = 1
    /\ last.chks[1].code = SUCCESS
    /\ last.chks[1].path = seq.path
    /\ last.sched # <<>>
    /\ catalog[seq.path][seq.replNum].chk = "ok"

----------------------------------------------------------------------------
(* The requests _ensure_replicas_checksum makes *)

\* The answers to the requests of the last call that were failures.
Failures == SelectSeq(last.chks, LAMBDA c : c.code # SUCCESS)

\* C28: with a hierarchy given, _ensure_replicas_checksum asks the checksum
\* of each replica stored at that hierarchy, one request per replica number
\* in ascending order, whatever the answers to the requests before; it logs
\* each failure and returns the code of the first, or SUCCESS when none
\* failed.
C28_EachReplicaRequested ==
    (last.hook = "_ensure_replicas_checksum" /\ last.resc_hier # NoHier)
    => LET recs == QueryReplNums(catalog, last.data_path, last.resc_hier)
       IN  /\ Len(last.chks) = Len(recs)
           /\ \A i \in DOMAIN recs :
                 last.chks[i] = [path |-> last.data_path,
                                 sel |-> ToString(recs[i]),
                                 code |-> last.env.chk[recs[i]]]
           /\ last.logs = Len(Failures)
           /\ last.res = IF Failures = <<>> THEN PyInt(SUCCESS)
                         ELSE PyInt(Failures[1].code)

\* Both replicas are at the hierarchy; the checksum of replica 0 fails, that
\* of replica 1 is still asked for and fails with another code; the code
\* returned is that of replica 0.
C28_Witness ==
    /\ last.hook = "_ensure_replicas_checksum"
    /\ last.resc_hier = HierA
    /\ Len(last.chks) = 2
    /\ last.chks[1].code = USER_CHKSUM_MISMATCH
    /\ last.chks[2].code = SYS_RESC_DOES_NOT_EXIST
    /\ last.res = PyInt(USER_CHKSUM_MISMATCH)
    /\ last.logs = 2

----------------------------------------------------------------------------
(* The checksum of all replicas in one request *)

\* C29: with an empty hierarchy, _ensure_replicas_checksum makes exactly one
\* request to the storage engine, for the checksum of all replicas, and when
\* that request fails it logs the failure and returns the failure code, an
\* integer below SUCCESS.
C29_ChecksumAllFailureCode ==
    (last.hook = "_ensure_replicas_checksum" /\ last.resc_hier = NoHier)
    => /\ Len(last.chks) = 1
       /\ last.chks[1] = [path |-> last.data_path, sel |-> "ChksumAll",
                          code |-> last.env.chkAll]
       /\ last.env.chkAll # SUCCESS
          => /\ last.logs = 1
             /\ last.res = PyInt(last.env.chkAll)
             /\ last.res.v < SUCCESS

----------------------------------------------------------------------------
(* One session seen by the two modules *)

\* The object and the hierarchy a session record names.
Names_session(d) ==
    [data_path |-> IF has_key(d, "data_path") THEN <<d["data_path"]>> ELSE <<>>,
     resc_hier |-> IF has_key(d, "resc_hier") THEN <<d["resc_hier"]>> ELSE <<>>]

----------------------------------------------------------------------------
(* Write sequences that never interleave: each create or open is followed  *)
(* by its writes, its primary close and the cleanup of that close before   *)
(* the next create or open.                                                *)

SerialCreate(p, h, hopt, opts) ==
    /\ seq.phase \in {"idle", "cleaned"}
    /\ Create(p, h, hopt, opts)

SerialOpen(p, n, h, flags, hopt) ==
    /\ seq.phase \in {"idle", "cleaned"}
    /\ Open(p, n, h, flags, hopt)

SerialReplicaOpen(p, n, h, flags, hopt) ==
    /\ seq.phase \in {"idle", "cleaned"}
    /\ ReplicaOpen(p, n, h, flags, hopt)

SerialWrite ==
    /\ seq.phase = "opened"
    /\ Write

SerialClose(env) ==
    /\ seq.phase = "opened"
    /\ seq.opener \in {"create", "open"}
    /\ Close(env)

SerialCloseFinally ==
    /\ seq.phase = "closed"
    /\ last.hook = "pep_api_data_obj_close_post"
    /\ CloseFinally

SerialReplicaClose(cc, env) ==
    /\ seq.phase = "opened"
    /\ seq.opener = "replica_open"
    /\ ReplicaClose(cc, env)

SerialReplicaCloseFinally ==
    /\ seq.phase = "closed"
    /\ last.hook = "pep_api_replica_close_post"
    /\ ReplicaCloseFinally

NextSerial ==
    \/ \E p \in Paths, h \in Hiers, hopt \in Hiers \cup {NoHier},
          opts \in ChksumOpts :
            SerialCreate(p, h, hopt, opts)
    \/ \E p \in Paths, n \in ReplNums, h \in Hiers, flags \in OpenFlags,
          hopt \in Hiers \cup {NoHier} :
            SerialOpen(p, n, h, flags, hopt)
    \/ \E p \in Paths, n \in ReplNums, h \in Hiers, flags \in OpenFlags,
          hopt \in Hiers \cup {NoHier} :
            SerialReplicaOpen(p, n, h, flags, hopt)
    \/ SerialWrite
    \/ \E env \in Envs : SerialClose(env)
    \/ SerialCloseFinally
    \/ \E cc \in {"absent", "false", "true"}, env \in Envs :
            SerialReplicaClose(cc, env)
    \/ SerialReplicaCloseFinally

SpecSerial == Init /\ [][NextSerial]_vars

\* The request for a checksum c is the one for the object p on the
\* hierarchy h: of all replicas when h is empty, else of a replica at h.
ChecksumOf(c, p, h) ==
    /\ c.path = p
    /\ IF h = NoHier THEN c.sel = "ChksumAll"
       ELSE \E n \in ReplNums : /\ c.sel = ToString(n)
                                /\ catalog[p][n].hier = h

\* The task t replicates the object p from the hierarchy h to the resource
\* bound to the root of h, or brings the replicas of p up to date.
ReplicationOf(t, p, h) ==
    /\ t.data_id = DataId(p)
    /\ t.rule = "replicate" => t.dest_resc = _query_repl_resc(root_resc(h))
    /\ t.rule = "sync_replicas" => t.dest_resc = ""

\* C31: when write sequences never interleave, every checksum a primary
\* close asks for and every replication it schedules is for the data_path
\* and the resc_hier that the create or open event of the same sequence
\* gave, and the close replicates nothing itself.
C31_CloseTargetsOwnSequence ==
    (last.hook \in PrimaryClose)
    => /\ \A i \in DOMAIN last.chks :
             ChecksumOf(last.chks[i], seq.path, seq.resc_hier)
       /\ \A i \in DOMAIN last.sched :
             ReplicationOf(last.sched[i], seq.path, seq.resc_hier)
       /\ last.repls = <<>>

\* The second sequence of the connection, on another object than the first:
\* f was created and closed, then g was opened on its hierarchy and written,
\* and its close asked the checksum of replica 0 of g and scheduled the
\* update of the replicas of g.
C31_Witness ==
    /\ last.hook = "pep_api_data_obj_close_post"
    /\ ObjExists(catalog, "/zone/home/alice/f")
    /\ seq.path = "/zone/home/alice/g" /\ seq.resc_hier = HierA
    /\ seq.written /\ ~seq.create
    /\ Len(last.chks) = 1 /\ last.chks[1].path = "/zone/home/alice/g"
    /\ last.chks[1].sel = "0"
    /\ Len(last.sched) = 1 /\ last.sched[1].rule = "sync_replicas"
    /\ last.sched[1].data_id = DataId("/zone/home/alice/g")

----------------------------------------------------------------------------
(* The end of a retried rule *)

\* The answers of the storage engine that are not transient failures:
\* success, or one of the conditions the code takes as permanent.
SettledEnvs ==
    {env \in TaskEnvs : \A p \in Objs : env.repl[p] = SUCCESS
                                        \/ Absorbed(env.repl[p])}

\* The delay server runs a queued rule at a time at which the storage
\* engine's answer is not a transient failure.
RunSettled == \E i \in 1..MaxQueue, env \in SettledEnvs : RunTask(i, env)

\* <EF>8h REPEAT UNTIL SUCCESS</EF>: the delay server keeps running the
\* rules it holds, and transient failures do not last.
SpecRetry == InitApi /\ [][NextApi]_vars /\ WF_vars(RunSettled)

\* What a run of replicate or sync_replicas reports: success when the id
\* resolves to no path (no call is made), when the call succeeds and when
\* it meets a permanent condition; else the failure code of the call.
RetryOutcome ==
    last.hook \in DelayedRules
    => /\ last.resp.t = "int"
       /\ Succeeded <=> \/ last.repls = <<>>
                        \/ last.repls[1].res = SUCCESS
                        \/ Absorbed(last.repls[1].res)
       /\ ~Succeeded => last.resp = PyInt(last.repls[1].res)

\* C32: a run of a scheduled replicate or sync_replicas rule reports
\* success when its replication call succeeds, meets a permanent condition
\* or the object id names no object, and reports failure only on a
\* transient failure; and when the delay server keeps running the rules it
\* holds and transient failures do not last, the rules it holds all come to
\* an end.
C32_RetryTaskTerminates ==
    /\ []RetryOutcome
    /\ (delay_queue # <<>>) ~> (delay_queue = <<>>)

----------------------------------------------------------------------------
(* next_delay called by two threads of one interpreter.  The statement     *)
(* __delay_time += 1 is a load of the global, an addition on the thread's  *)
(* own stack and a store to the global, and the return statement loads the *)
(* global again; the interpreter may switch threads between any two of     *)
(* them.  Here seq holds, for each thread, how far its call is, the value  *)
(* on its stack and the value it returned, and the counter at the start.   *)

Threads == {"t1", "t2"}

NoCalls(base) ==
    [pc |-> [t \in Threads |-> "called"], stack |-> [t \in Threads |-> 0],
     ret |-> [t \in Threads |-> 0], base |-> base]

\* __delay_time += 1, first half: the global is loaded and one is added
next_delay_load(t) ==
    /\ seq.pc[t] = "called"
    /\ seq' = [seq EXCEPT !.pc[t] = "loaded", !.stack[t] = delay_time + 1]
    /\ UNCHANGED <<ck_write_props, rp_write_props, delay_time, delay_queue,
                   catalog, last>>

\* __delay_time += 1, second half: the sum is stored to the global
next_delay_store(t) ==
    /\ seq.pc[t] = "loaded"
    /\ delay_time' = seq.stack[t]
    /\ seq' = [seq EXCEPT !.pc[t] = "stored"]
    /\ UNCHANGED <<ck_write_props, rp_write_props, delay_queue, catalog, last>>

\* return __delay_time
next_delay_return(t) ==
    /\ seq.pc[t] = "stored"
    /\ seq' = [seq EXCEPT !.pc[t] = "returned", !.ret[t] = delay_time]
    /\ UNCHANGED <<ck_write_props, rp_write_props, delay_time, delay_queue,
                   catalog, last>>

\* The counter is where some number of earlier calls left it.
InitThrottle ==
    /\ ck_write_props = EmptyDict
    /\ rp_write_props = EmptyDict
    /\ delay_time \in -1..MaxDelay
    /\ delay_queue = <<>>
    /\ catalog = InitCatalog
    /\ last = [hook |-> "next_delay"]
    /\ seq = NoCalls(delay_time)

NextThrottle ==
    \/ \E t \in Threads : next_delay_load(t)
    \/ \E t \in Threads : next_delay_store(t)
    \/ \E t \in Threads : next_delay_return(t)

SpecThrottle == InitThrottle /\ [][NextThrottle]_vars

\* C35: when the steps of two calls of next_delay interleave, the two calls
\* return different delays and leave the counter two above where it was.
C35_ConcurrentDelaysDistinct ==
    (\A t \in Threads : seq.pc[t] = "returned")
    => /\ seq.ret["t1"] # seq.ret["t2"]
       /\ delay_time = seq.base + 2

----------------------------------------------------------------------------
(* Replication after a put and after a copy *)

\* What the replication rule of a put or a copy of p hands to the delay
\* server, for a request with the hierarchy hopt when the throttle stood at
\* d: the replication of a created object to the resource bound to the
\* root of hopt, nothing when none is bound, and the update of the replicas
\* of an object that existed.
PutSchedules(existed, p, hopt, d) ==
    IF existed
    THEN <<[rule |-> "sync_replicas", data_id |-> DataId(p),
            dest_resc |-> "", delay |-> d + 1]>>
    ELSE IF _query_repl_resc(root_resc(hopt)) = "None" THEN <<>>
    ELSE <<[rule |-> "replicate", data_id |-> DataId(p),
            dest_resc |-> _query_repl_resc(root_resc(hopt)),
            delay |-> d + 1]>>

\* C33: the replication rule of a put or a copy attempts no replication
\* itself; it schedules exactly one replicate rule for the object, to the
\* peer, when the request creates the object and a peer is bound, exactly
\* one sync_replicas rule when the object existed, and nothing when the
\* object is created and no peer is bound; and it returns success.
C33_PutCopySchedulesOnly ==
    [][\A p \in ApiPaths, h \in Hiers, hopt \in Hiers \cup {NoHier},
          opts \in ApiOpts, env \in ChkEnvs :
            ((Put(p, h, hopt, opts, env) \/ Copy(p, h, hopt, opts, env))
             /\ InSeq("replication", last'.invoked))
            => /\ last'.repls = <<>>
               /\ last'.sched = PutSchedules(ObjExists(catalog, p), p, hopt,
                                             delay_time)
               /\ last'.resp.t = "int" /\ ~Failed(last'.resp)]_vars

\* A put that created the object on rescA: one replicate rule to rescB is
\* in the queue and no replication was attempted.
C33_Witness ==
    /\ last.hook = "pep_api_data_obj_put_post"
    /\ last.invoked = <<"checksum", "replication">>
    /\ last.repls = <<>>
    /\ Len(last.sched) = 1
    /\ last.sched[1].rule = "replicate"
    /\ last.sched[1].dest_resc = "rescB"
    /\ last.sched[1].data_id = DataId("/zone/home/alice/f")
    /\ \E i \in DOMAIN delay_queue : delay_queue[i] = last.sched[1]

----------------------------------------------------------------------------
(* Touch *)

TouchOpts == SUBSET {"no_create", "replica_number", "leaf_resource_name"}

\* What the storage engine did when it touched p: it created the object on
\* h unless no_create is set, or gave replica 0 of the object a new modify
\* time, which is the create time again (same) or another.
Touched(cat, p, h, opts, same) ==
    IF ObjExists(cat, p) THEN [cat EXCEPT ![p][0].fresh = same]
    ELSE IF has_opt(opts, "no_create") THEN cat
    ELSE [cat EXCEPT ![p][0] = [hier |-> h, chk |-> "none", fresh |-> TRUE]]

\* touch
Touch(p, h, opts, same, env) ==
    /\ CanStore(catalog, p, h)
    /\ LET req == [NoReq EXCEPT !.objPath = p, !.opts = opts]
           out == Hook(Policy, "pep_api_touch_post",
                       [World EXCEPT !.cat = Touched(catalog, p, h, opts, same)],
                       req, env)
       IN  /\ FitsApi(out)
           /\ Finish("pep_api_touch_post", Policy, req, NoRets, out, seq)

\* The delay server runs a queued rule with success.
RunQueued(i) ==
    /\ i \in DOMAIN delay_queue
    /\ RunTask(i, OkEnv)

NextTouch ==
    \/ \E p \in Paths, h \in Hiers, opts \in TouchOpts, same \in BOOLEAN,
          env \in ChkEnvs :
            Touch(p, h, opts, same, env)
    \/ \E i \in 1..MaxQueue : RunQueued(i)

SpecTouch == InitApi /\ [][NextTouch]_vars

\* The gate of the checksum touch handler: no_create is false and neither
\* replica_number nor leaf_resource_name is given.
TouchGate(opts) ==
    /\ ~has_opt(opts, "no_create")
    /\ ~has_opt(opts, "replica_number")
    /\ ~has_opt(opts, "leaf_resource_name")

\* C37: a touch whose options do not pass the gate of the checksum touch
\* handler (no_create is true, or replica_number or leaf_resource_name is
\* given) schedules no replication.
C37_TouchSchedulesUnderGate ==
    [][\A p \in Paths, h \in Hiers, opts \in TouchOpts, same \in BOOLEAN,
          env \in ChkEnvs :
            (Touch(p, h, opts, same, env) /\ ~TouchGate(opts))
            => last'.sched = <<>>]_vars

----------------------------------------------------------------------------
(* Hosted collections and their descendants *)

\* The collection coll is the collection of the data object or one above
\* it: the path of the object continues with "/" after coll.
HostsObject(coll, data_path) == startswith(data_path, coll \o <<"/">>)

\* The hosted collections that hold the object.
Hosting == {i \in DOMAIN catalog.hosted :
               HostsObject(catalog.hosted[i].coll, catalog.data_path)}

\* C38: acSetRescSchemeForCreate selects the rule of a hosted collection
\* only when that collection is the collection of the object or one above
\* it; when no hosted collection holds the object, a rule whose path is a
\* mere character prefix of the object's path is not selected and the
\* scheme is the default resource, preferred.
C38_OnlyHostingRuleSelected ==
    (/\ last.hook = "acSetRescSchemeForCreate"
     \* a hosted collection is not the data object itself
     /\ \A i \in DOMAIN catalog.hosted :
           catalog.hosted[i].coll # catalog.data_path)
    => IF Hosting = {}
       THEN last.scheme = Scheme(default_resc, "preferred")
       ELSE \E i \in Hosting :
               /\ last.scheme.resc = catalog.hosted[i].resc
               /\ last.scheme.residency = lower(catalog.hosted[i].units)

----------------------------------------------------------------------------
(* The creation of accounts.  Here catalog is the set of the names of the  *)
(* service accounts that exist.                                            *)

UserNames == {"svc1", "svc2", "svc3"}
UserTypes == {_SVC_TYPE, "rodsuser", "rodsadmin"}

\* The administrator creates the user name of the type user_type, and
\* msiCreateUser, if called, answers code: a failure when the name is taken.
CreateUser(name, user_type, code) ==
    /\ name \in catalog => code # SUCCESS
    /\ LET req == [name |-> name, user_type |-> user_type]
           env == [code |-> code]
           r == service_acCreateUser([calls |-> <<>>], req, env)
           out == Hook(<<"service">>, "acCreateUser", [calls |-> <<>>], req,
                       env)
       IN  /\ catalog' = IF InSeq("msiCommit", out.w.calls)
                         THEN catalog \cup {name} ELSE catalog
           /\ last' = [hook |-> "acCreateUser", name |-> name,
                       user_type |-> user_type, code |-> code,
                       calls |-> out.w.calls, res |-> r.res,
                       resp |-> out.resp, existed |-> name \in catalog]
    /\ UNCHANGED <<ck_write_props, rp_write_props, delay_time, delay_queue,
                   seq>>

\* The administrator removes a service account.
RemoveUser(name) ==
    /\ name \in catalog
    /\ catalog' = catalog \ {name}
    /\ UNCHANGED <<ck_write_props, rp_write_props, delay_time, delay_queue,
                   last, seq>>

InitService ==
    /\ ck_write_props = EmptyDict
    /\ rp_write_props = EmptyDict
    /\ delay_time = -1
    /\ delay_queue = <<>>
    /\ catalog = {}
    /\ last = [hook |-> "", name |-> "", user_type |-> "", code |-> SUCCESS,
               calls |-> <<>>, res |-> PyNone, resp |-> PyNone,
               existed |-> FALSE]
    /\ seq = IdleSeq

NextService ==
    \/ \E name \in UserNames, user_type \in UserTypes,
          code \in {SUCCESS, SYS_NOT_ALLOWED} :
            CreateUser(name, user_type, code)
    \/ \E name \in UserNames : RemoveUser(name)

SpecService == InitService /\ [][NextService]_vars

\* C39: for a user of type ds-service the rule calls msiCreateUser once and
\* then exactly one of msiCommit, when the creation succeeded, after which
\* the rule returns SUCCESS, and msiRollback, when it failed, after which
\* the rule returns the failure code and so does the hook; for a user of
\* another type it makes no call and the hook returns RULE_ENGINE_CONTINUE.
C39_ServiceAccountCreation ==
    last.hook = "acCreateUser"
    => IF last.user_type = _SVC_TYPE
       THEN IF last.code = SUCCESS
            THEN /\ last.calls = <<"msiCreateUser", "msiCommit">>
                 /\ last.res = PyInt(SUCCESS)
            ELSE /\ last.calls = <<"msiCreateUser", "msiRollback">>
                 /\ last.res = PyInt(last.code)
                 /\ last.resp = PyInt(last.code)
       ELSE /\ last.calls = <<>>
            /\ last.resp = PyInt(RULE_ENGINE_CONTINUE)

\* The creation of a service account whose name is taken: the creation
\* failed, the transaction was rolled back and the hook returned the code.
C39_Witness ==
    /\ last.hook = "acCreateUser"
    /\ last.user_type = _SVC_TYPE
    /\ last.existed
    /\ last.calls = <<"msiCreateUser", "msiRollback">>
    /\ last.resp = PyInt(SYS_NOT_ALLOWED)
    /\ last.name \in catalog

----------------------------------------------------------------------------
(* The replica API under the policy package: peps.py binds each hook to    *)
(* the checksum and replication modules of cyverse/policy.                 *)

PolicyPackage == <<"policy.checksum", "policy.replication">>

\* replica_open
PolicyReplicaOpen(p, n, h, flags, hopt) ==
    /\ hopt \in {h, NoHier}
    /\ CanOpen(p, n, h, flags)
    /\ LET req == OpenReq(p, n, h, flags, hopt)
           cat0 == Opened(catalog, p, n, h, flags)
           out == Hook(PolicyPackage, "pep_api_replica_open_post",
                       [World EXCEPT !.cat = cat0], req, NoEnv)
       IN  /\ Fits(out)
           /\ Finish("pep_api_replica_open_post", PolicyPackage, req, NoRets,
                     out, Opening("replica_open", req, n))

\* data_obj_write
PolicyWrite ==
    /\ LET writes == seq.phase = "opened" /\ ~seq.readonly
           cat0 == IF writes THEN Modified(catalog, seq.path, seq.replNum)
                   ELSE catalog
           out == Hook(PolicyPackage, "pep_api_data_obj_write_post",
                       [World EXCEPT !.cat = cat0], NoReq, NoEnv)
       IN  /\ Fits(out)
           /\ Finish("pep_api_data_obj_write_post", PolicyPackage, NoReq,
                     NoRets, out, [seq EXCEPT !.written = TRUE])

\* replica_close
PolicyReplicaClose(cc, env) ==
    /\ LET req == [NoReq EXCEPT !.compute_checksum = cc]
           out == Hook(PolicyPackage, "pep_api_replica_close_post", World, req,
                       env)
       IN  /\ Fits(out)
           /\ Finish("pep_api_replica_close_post", PolicyPackage, req, NoRets,
                     out, Closed)

\* the cleanup of replica_close
PolicyReplicaCloseFinally ==
    /\ LET out == Hook(PolicyPackage, "pep_api_replica_close_finally", World,
                       NoReq, NoEnv)
       IN  /\ Fits(out)
           /\ Finish("pep_api_replica_close_finally", PolicyPackage, NoReq,
                     NoRets, out, CleanSeq)

NextPolicy ==
    \/ \E p \in Paths, n \in ReplNums, h \in Hiers, flags \in OpenFlags,
          hopt \in Hiers \cup {NoHier} :
            PolicyReplicaOpen(p, n, h, flags, hopt)
    \/ PolicyWrite
    \/ \E cc \in {"absent", "false", "true"}, env \in Envs :
            PolicyReplicaClose(cc, env)
    \/ PolicyReplicaCloseFinally

SpecPolicy == Init /\ [][NextPolicy]_vars

\* C34: under the policy package, the replica-close post hook of a sequence
\* that was not opened read-only and created, truncated or wrote its
\* replica asks the checksum of the recorded path on the recorded
\* hierarchy unless the request sets compute_checksum, schedules the
\* replication of a created object with a peer or the update of the
\* replicas of a modified one, and leaves the session records to the
\* cleanup hook.
C34_PolicyReplicaClose ==
    (/\ last.hook = "pep_api_replica_close_post"
     /\ last.bases = PolicyPackage
     /\ seq.phase = "closed" /\ seq.opener = "replica_open"
     /\ ~seq.readonly /\ WroteReplica)
    => /\ last.compute_checksum # "true"
          => /\ last.chks # <<>>
             /\ \A i \in DOMAIN last.chks :
                   ChecksumOf(last.chks[i], seq.path, seq.resc_hier)
       /\ (ChecksumStepSucceeded /\ ~seq.create)
          => last.sched = <<[rule |-> "sync_replicas",
                             data_id |-> DataId(seq.path), dest_resc |-> "",
                             delay |-> delay_time]>>
       /\ ck_write_props # EmptyDict /\ rp_write_props # EmptyDict

----------------------------------------------------------------------------
(* What a close knows of the past *)

\* The session records that the events of the sequence s alone produce,
\* counted from its create or open.
ChecksumSessionOf(s) ==
    [data_path |-> s.path, resc_hier |-> s.resc_hier,
     needs_checksum |-> s.written
                        \/ (~s.readonly /\ (s.create \/ s.truncate))]

ReplicationSessionOf(s) ==
    [data_path |-> s.path, resc_hier |-> s.resc_hier,
     created |-> ~s.readonly /\ s.create,
     modified |-> s.written \/ (~s.readonly /\ s.truncate)]

\* C36: a create or open event overwrites every field of both session
\* records, so from that event to the first primary close after it the
\* records are the ones its own sequence produces, whatever the connection
\* did before (a sequence that was never closed included), and that close
\* asks for checksums exactly when its own sequence needs one (and, at a
\* replica close, the request leaves the checksum to the rule), only for
\* the object and the hierarchy of that sequence, and schedules only rules
\* for that object.
C36_CloseDependsOnOwnSequence ==
    /\ (seq.phase = "opened" \/ (seq.phase = "closed"
                                 /\ last.hook \in PrimaryClose))
       => /\ ck_write_props = ChecksumSessionOf(seq)
          /\ rp_write_props = ReplicationSessionOf(seq)
    /\ (seq.phase = "closed" /\ last.hook \in PrimaryClose)
       => /\ (last.chks # <<>>)
             <=> /\ ChecksumSessionOf(seq).needs_checksum
                 /\ (last.hook = "pep_api_replica_close_post"
                     => last.compute_checksum # "true")
          /\ \A i \in DOMAIN last.chks :
                ChecksumOf(last.chks[i], seq.path, seq.resc_hier)
          /\ \A i \in DOMAIN last.sched :
                ReplicationOf(last.sched[i], seq.path, seq.resc_hier)

\* A read-only open of g arrives while the session still holds the records
\* of an earlier sequence, the creation of f, whose checksum was never
\* computed; the open replaces every one of them.
C36_Witness ==
    /\ seq.phase = "opened" /\ last.hook = "pep_api_data_obj_open_post"
    /\ seq.readonly /\ seq.path = "/zone/home/alice/g"
    /\ catalog["/zone/home/alice/f"][0].chk = "none"
    /\ last.pre.ck = {"data_path", "resc_hier", "needs_checksum"}
    /\ last.pre.rp = {"data_path", "resc_hier", "created", "modified"}
    /\ ~ck_write_props["needs_checksum"]
    /\ ~rp_write_props["created"] /\ ~rp_write_props["modified"]

====
